---- MODULE Spec2Model ----
(***************************************************************************)
(* Model of the texture_stacker engine: TextureStacker::run_on_directory   *)
(* (src/src/lib.rs) and combine_texture_sets with its pixel helpers        *)
(* (src/src/processing.rs).                                                *)
(*                                                                         *)
(* Images are flat byte buffers plus an ImageFormat, as in RawImage.       *)
(* Sequences are 1-based here, so byte offset o of the code is index o+1,  *)
(* set index k of the code is k+1 and suffix index s of the code is s+1.   *)
(***************************************************************************)
EXTENDS Integers, Sequences, FiniteSets, TLC

VARIABLES
    disk,           \* input files: filename -> RawImage (what read_image_from_file yields)
    gathered,       \* result of gather_texture_sets_from_directory on the input directory
    input_is_dir,   \* input_directory.is_dir()
    stacker,        \* the TextureStacker options (keep_mask_alpha, output_masks, suffixes, output_texture_name)
    pc,             \* position in the run
    inputs,         \* input_sets handed to combine_texture_sets (after retain)
    set_masks,      \* Vec<Vec<bool>>, one mask per input set
    working_res,    \* (width, height) established by the first mask source
    suffix_index,   \* outer compositing loop position (1-based)
    set_index,      \* inner loop position over input_sets (1-based)
    output_image,   \* Option<RawImage> of the suffix being composited
    first,          \* the `first` flag of the suffix being composited
    written,        \* files written by write_image_to_file: path -> RawImage
    dir_created,    \* the output directory exists
    log,            \* warnings and errors, in emission order
    listing,        \* the entries of the input directory in the order read_dir yields them
    unwritable,     \* the paths at which File::create fails
    io,             \* history of the file-system operations of the run, in order
    window,         \* the MainWindow of the graphical frontend (its fields)
    ui_thread       \* the thread running MainWindow::update: "running" or "panicked"

vars == <<disk, gathered, input_is_dir, stacker, pc, inputs, set_masks, working_res,
          suffix_index, set_index, output_image, first, written, dir_created, log,
          listing, unwritable, io, window, ui_thread>>

----------------------------------------------------------------------------
(* Bounds of the model *)

\* Largest number of texture sets found in the input directory.
MaxSets == 3

(* Program constants *)

\* Alpha value synthesized for a pixel read from an 8-bit RGB image.
OpaqueAlpha == 255

\* Option<T>: None is the empty sequence, Some(x) the sequence of x alone.
None == <<>>

Some(x) == <<x>>

unwrap(option) == option[1]

\* MainWindow::new, with the suffix list of the configuration it loads.
MainWindow_new(suffixes) ==
    [config |-> [suffixes |-> suffixes],
     processing_status |-> "None",
     process_thread |-> None,
     is_showing_error |-> FALSE,
     error_message |-> ""]

COMBINED_DIRECTORY_NAME == "Combined"

\* Texture set names, in the key order a BTreeMap<String, _> iterates them.
SetNames == <<"Body", "Doors", "Engine", "Frame", "Glass">>

\* Suffix list of the run: a prefix of the default list.
DefaultSuffixes == <<"_D", "_N">>

----------------------------------------------------------------------------
(* Pixel format model *)

\* calc_pixel_stride: bytes per pixel; 0 stands for the panic "Format not supported".
calc_pixel_stride(format) ==
    CASE format.bit_depth = "Eight"   /\ format.color_type = "Rgb"  -> 3
      [] format.bit_depth = "Eight"   /\ format.color_type = "Rgba" -> 4
      [] format.bit_depth = "Sixteen" /\ format.color_type = "Rgb"  -> 6
      [] format.bit_depth = "Sixteen" /\ format.color_type = "Rgba" -> 8
      [] OTHER -> 0

\* Pixel access accepting 16-bit formats as well.
pixel_format_supported_any_depth(format) == format.color_type \in {"Rgb", "Rgba"}

\* The formats bytes_to_pixel and pixel_to_bytes accept; every other one panics.
pixel_format_supported(format) ==
    /\ format.bit_depth = "Eight"
    /\ format.color_type \in {"Rgb", "Rgba"}

\* bytes_to_pixel reading the alpha of an RGBA pixel one byte too early.
bytes_to_pixel_alpha_from_blue(data, off, format) ==
    IF format.color_type = "Rgb"
    THEN <<data[off + 1], data[off + 2], data[off + 3], OpaqueAlpha>>
    ELSE <<data[off + 1], data[off + 2], data[off + 3], data[off + 3]>>

\* bytes_to_pixel giving an RGB pixel the alpha 0.
bytes_to_pixel_transparent_rgb(data, off, format) ==
    IF format.color_type = "Rgb"
    THEN <<data[off + 1], data[off + 2], data[off + 3], 0>>
    ELSE <<data[off + 1], data[off + 2], data[off + 3], data[off + 4]>>

\* bytes_to_pixel(&data[off..], format): Pixel(r, g, b, a).
bytes_to_pixel(data, off, format) ==
    IF format.color_type = "Rgb"
    THEN <<data[off + 1], data[off + 2], data[off + 3], OpaqueAlpha>>
    ELSE <<data[off + 1], data[off + 2], data[off + 3], data[off + 4]>>

\* bytes_to_pixel panics: unsupported format, or the slice is too short.
bytes_to_pixel_panics(data, off, format) ==
    \/ ~pixel_format_supported(format)
    \/ off + (IF format.color_type = "Rgb" THEN 3 ELSE 4) > Len(data)

\* pixel_to_bytes writing the alpha byte whatever the format.
pixel_to_bytes_four(pixel, format, data, off) ==
    [j \in 1..Len(data) |->
        IF j > off /\ j <= off + 4 THEN pixel[j - off] ELSE data[j]]

\* pixel_to_bytes(pixel, format, &mut data[off..]): the buffer after the write.
pixel_to_bytes(pixel, format, data, off) ==
    LET n == IF format.color_type = "Rgb" THEN 3 ELSE 4
    IN  [j \in 1..Len(data) |->
            IF j > off /\ j <= off + n THEN pixel[j - off] ELSE data[j]]

pixel_to_bytes_panics(format, data, off) ==
    \/ ~pixel_format_supported(format)
    \/ off + (IF format.color_type = "Rgb" THEN 3 ELSE 4) > Len(data)

num_pixels_of(format) == format.width * format.height

----------------------------------------------------------------------------
(* Mask builder *)

\* The mask loop taking only fully opaque pixels into the mask.
RECURSIVE mask_loop_opaque_only(_, _, _)
mask_loop_opaque_only(image, i, pixel_mask) ==
    IF i >= num_pixels_of(image.format) THEN pixel_mask
    ELSE LET pixel == bytes_to_pixel(image.data, i * calc_pixel_stride(image.format),
                                     image.format)
         IN  mask_loop_opaque_only(image, i + 1,
                 [pixel_mask EXCEPT ![i + 1] = (pixel[4] = OpaqueAlpha)])

\* The loop of create_mask_from_alpha_channel from pixel i (0-based) on.
RECURSIVE mask_loop(_, _, _)
mask_loop(image, i, pixel_mask) ==
    IF i >= num_pixels_of(image.format) THEN pixel_mask
    ELSE LET pixel == bytes_to_pixel(image.data, i * calc_pixel_stride(image.format),
                                     image.format)
         IN  mask_loop(image, i + 1, [pixel_mask EXCEPT ![i + 1] = (pixel[4] # 0)])

\* create_mask_from_alpha_channel: vec![false; num_pixels], then the loop.
create_mask_from_alpha_channel(image) ==
    mask_loop(image, 0, [i \in 1..num_pixels_of(image.format) |-> FALSE])

\* The assertions and format panics of create_mask_from_alpha_channel.
create_mask_panics(image) ==
    \/ image.format.color_type # "Rgba"
    \/ calc_pixel_stride(image.format) = 0
    \/ Len(image.data) # num_pixels_of(image.format) * calc_pixel_stride(image.format)
    \/ /\ num_pixels_of(image.format) > 0
       /\ ~pixel_format_supported(image.format)

----------------------------------------------------------------------------
(* Copying *)

\* The masked loop with the mask test negated.
RECURSIVE masked_loop_inverted(_, _, _, _, _)
masked_loop_inverted(source_image, dest_format, dest_data, mask, i) ==
    LET num_pixels    == num_pixels_of(source_image.format)
        source_stride == Len(source_image.data) \div num_pixels
        dest_stride   == Len(dest_data) \div num_pixels
    IN  IF i >= num_pixels THEN dest_data
        ELSE IF ~mask[i + 1]
        THEN masked_loop_inverted(source_image, dest_format,
                 pixel_to_bytes(bytes_to_pixel(source_image.data, i * source_stride,
                                               source_image.format),
                                dest_format, dest_data, i * dest_stride),
                 mask, i + 1)
        ELSE masked_loop_inverted(source_image, dest_format, dest_data, mask, i + 1)

\* The masked loop without the mask test.
RECURSIVE masked_loop_unmasked(_, _, _, _, _)
masked_loop_unmasked(source_image, dest_format, dest_data, mask, i) ==
    LET num_pixels    == num_pixels_of(source_image.format)
        source_stride == Len(source_image.data) \div num_pixels
        dest_stride   == Len(dest_data) \div num_pixels
    IN  IF i >= num_pixels THEN dest_data
        ELSE masked_loop_unmasked(source_image, dest_format,
                 pixel_to_bytes(bytes_to_pixel(source_image.data, i * source_stride,
                                               source_image.format),
                                dest_format, dest_data, i * dest_stride),
                 mask, i + 1)

\* The loop of copy_image_masked from pixel i (0-based) on; yields dest's data.
RECURSIVE masked_loop(_, _, _, _, _)
masked_loop(source_image, dest_format, dest_data, mask, i) ==
    LET num_pixels    == num_pixels_of(source_image.format)
        source_stride == Len(source_image.data) \div num_pixels
        dest_stride   == Len(dest_data) \div num_pixels
    IN  IF i >= num_pixels THEN dest_data
        ELSE IF mask[i + 1]
        THEN masked_loop(source_image, dest_format,
                 pixel_to_bytes(bytes_to_pixel(source_image.data, i * source_stride,
                                               source_image.format),
                                dest_format, dest_data, i * dest_stride),
                 mask, i + 1)
        ELSE masked_loop(source_image, dest_format, dest_data, mask, i + 1)

\* copy_image_masked(source_image, dest_image, mask): dest_image afterwards.
copy_image_masked(source_image, dest_image, mask) ==
    [dest_image EXCEPT !.data =
        masked_loop(source_image, dest_image.format, dest_image.data, mask, 0)]

\* copy_image_masked panics: an assertion fails, num_pixels is 0 (division by
\* zero), or a pixel that the mask selects cannot be decoded or encoded.
copy_image_masked_panics(source_image, dest_image, mask) ==
    LET num_pixels == num_pixels_of(source_image.format)
    IN  \/ <<source_image.format.width, source_image.format.height>>
             # <<dest_image.format.width, dest_image.format.height>>
        \/ num_pixels = 0
        \/ Len(mask) # num_pixels
        \/ \E i \in 0..(num_pixels - 1) :
              /\ mask[i + 1]
              /\ \/ bytes_to_pixel_panics(source_image.data,
                        i * (Len(source_image.data) \div num_pixels), source_image.format)
                 \/ pixel_to_bytes_panics(dest_image.format, dest_image.data,
                        i * (Len(dest_image.data) \div num_pixels))

\* The slow path of copy_image from pixel i (0-based) on; yields dest's data.
RECURSIVE convert_loop(_, _, _, _)
convert_loop(source_image, dest_format, dest_data, i) ==
    LET num_pixels    == num_pixels_of(source_image.format)
        source_stride == Len(source_image.data) \div num_pixels
        dest_stride   == Len(dest_data) \div num_pixels
    IN  IF i >= num_pixels THEN dest_data
        ELSE convert_loop(source_image, dest_format,
                 pixel_to_bytes(bytes_to_pixel(source_image.data, i * source_stride,
                                               source_image.format),
                                dest_format, dest_data, i * dest_stride),
                 i + 1)

\* copy_image skipping the pixels of the source whose own alpha is 0.
copy_image_own_alpha(source_image, dest_image) ==
    LET num_pixels    == num_pixels_of(source_image.format)
        source_stride == Len(source_image.data) \div num_pixels
    IN  [dest_image EXCEPT !.data =
            masked_loop(source_image, dest_image.format, dest_image.data,
                        [i \in 1..num_pixels |->
                            bytes_to_pixel(source_image.data, (i - 1) * source_stride,
                                           source_image.format)[4] # 0],
                        0)]

\* copy_image(source_image, dest_image): dest_image afterwards.
copy_image(source_image, dest_image) ==
    IF source_image.format = dest_image.format
    THEN [dest_image EXCEPT !.data = source_image.data]
    ELSE [dest_image EXCEPT !.data =
             convert_loop(source_image, dest_image.format, dest_image.data, 0)]

copy_image_panics(source_image, dest_image) ==
    LET num_pixels == num_pixels_of(source_image.format)
    IN  IF source_image.format = dest_image.format
        THEN Len(source_image.data) # Len(dest_image.data)
        ELSE \/ <<source_image.format.width, source_image.format.height>>
                  # <<dest_image.format.width, dest_image.format.height>>
             \/ num_pixels = 0
             \/ \E i \in 0..(num_pixels - 1) :
                   \/ bytes_to_pixel_panics(source_image.data,
                          i * (Len(source_image.data) \div num_pixels), source_image.format)
                   \/ pixel_to_bytes_panics(dest_image.format, dest_image.data,
                          i * (Len(dest_image.data) \div num_pixels))

----------------------------------------------------------------------------
(* Files of the input directory *)

\* An 8-bit ImageFormat of resolution res = <<width, height>>.
Format8(res, color_type) ==
    [width |-> res[1], height |-> res[2], color_type |-> color_type, bit_depth |-> "Eight"]

\* The decoded content of the file of set k for suffix s: every pixel carries
\* a colour that names its set, suffix and pixel position; alphas gives the
\* alpha byte of each pixel of an RGBA image.
FileImage(k, s, res, color_type, alphas) ==
    LET format == Format8(res, color_type)
        stride == calc_pixel_stride(format)
    IN  [data |-> [j \in 1..(num_pixels_of(format) * stride) |->
                      LET i == (j - 1) \div stride
                          c == (j - 1) % stride
                      IN  CASE c = 0 -> 16 * k + s
                            [] c = 1 -> 50 + i
                            [] c = 2 -> 200 - k
                            [] OTHER -> alphas[i + 1]],
         format |-> format]

\* Mask-source files: absent, or RGBA with one of a few alpha patterns, or RGBA
\* of another resolution.
Absent == [res |-> <<0, 0>>, color_type |-> "absent", alphas |-> <<>>]

MaskSourceChoices ==
    {Absent}
    \cup {[res |-> <<2, 2>>, color_type |-> "Rgba", alphas |-> a] :
             a \in {<<255, 255, 255, 255>>, <<0, 255, 255, 255>>, <<1, 0, 0, 0>>}}
    \cup {[res |-> <<1, 2>>, color_type |-> "Rgba", alphas |-> <<0, 255>>]}

\* Files of the other suffixes of set k: absent, or present with a format
\* that alternates from set to set, RGBA (with an alpha of its own) for the
\* odd sets and RGB for the even ones.
LayerChoices(k) ==
    {Absent,
     IF k % 2 = 1
     THEN [res |-> <<2, 2>>, color_type |-> "Rgba", alphas |-> <<255, 7, 0, 255>>]
     ELSE [res |-> <<2, 2>>, color_type |-> "Rgb", alphas |-> <<>>]}

\* What texture set k may consist of when the suffix list has ns entries.
SetChoices(k, ns) ==
    {c \in [1..ns -> MaskSourceChoices \cup LayerChoices(k)] :
        \A s \in 1..ns : IF s = 1 THEN c[s] \in MaskSourceChoices
                                  ELSE c[s] \in LayerChoices(k)}

\* A filename of the input directory: base name and suffix token.
FileName(k, suffix) == <<SetNames[k], suffix>>

\* Prefixes of the default suffix list, the empty one included.
SuffixLists == {SubSeq(DefaultSuffixes, 1, n) : n \in 0..Len(DefaultSuffixes)}

----------------------------------------------------------------------------
(* The run *)

OutputPath(suffix) == <<COMBINED_DIRECTORY_NAME, stacker.output_texture_name, suffix>>

MaskPath(i) == <<COMBINED_DIRECTORY_NAME, "mask", ToString(i)>>

\* write_image_to_file into the set of written files.
write_image_to_file(files, file_name, image) ==
    [f \in DOMAIN files \cup {file_name} |-> IF f = file_name THEN image ELSE files[f]]

read_image_from_file(file_name) == disk[file_name]

LogEntry(level, kind, subject) == [level |-> level, kind |-> kind, subject |-> subject]

\* One file-system operation: "create_dir", "read_dir", "read" or "write".
IoEvent(op, path) == [op |-> op, path |-> path]

\* File::create in write_image_to_file fails for file_name.
write_fails(file_name) == file_name \in unwritable

\* The retain predicate without the test of the first texture.
valid_nonempty(set) == Len(set.textures) > 0

\* The retain predicate asking for every texture of the set.
valid_all_layers(set) ==
    Len(set.textures) > 0 /\ \A s \in 1..Len(set.textures) : set.textures[s] # None

\* The retain predicate of run_on_directory.
valid(set) == Len(set.textures) > 0 /\ set.textures[1] # None

invalid(set) == ~valid(set)

Init ==
    /\ pc = "start"
    /\ input_is_dir \in BOOLEAN
    /\ stacker \in [keep_mask_alpha : BOOLEAN, output_masks : BOOLEAN,
                    suffixes : SuffixLists, output_texture_name : {"Output"}]
    /\ \E n \in 0..MaxSets :
         \E choice \in [1..n -> UNION {SetChoices(k, Len(stacker.suffixes)) : k \in 1..n}] :
            /\ \A k \in 1..n : choice[k] \in SetChoices(k, Len(stacker.suffixes))
            /\ input_is_dir \/ n = 0
            /\ gathered =
                 [k \in 1..n |->
                    [name |-> SetNames[k],
                     textures |-> [s \in 1..Len(stacker.suffixes) |->
                                     IF choice[k][s] = Absent THEN None
                                     ELSE Some(FileName(k, stacker.suffixes[s]))]]]
            /\ disk =
                 [f \in {FileName(k, stacker.suffixes[s]) :
                           <<k, s>> \in {ks \in (1..n) \X (1..Len(stacker.suffixes)) :
                                           choice[ks[1]][ks[2]] # Absent}} |->
                    LET k == CHOOSE k \in 1..n : SetNames[k] = f[1]
                        s == CHOOSE s \in 1..Len(stacker.suffixes) : stacker.suffixes[s] = f[2]
                    IN  FileImage(k, s, choice[k][s].res, choice[k][s].color_type,
                                  choice[k][s].alphas)]
    /\ inputs = <<>>
    /\ set_masks = <<>>
    /\ working_res = <<0, 0>>
    /\ suffix_index = 1
    /\ set_index = 1
    /\ output_image = None
    /\ first = TRUE
    /\ written = <<>>
    /\ dir_created = FALSE
    /\ log = <<>>
    /\ listing = <<>>
    /\ unwritable = {}
    /\ io = <<>>
    /\ window = MainWindow_new(<<>>)
    /\ ui_thread = "running"

\* The skip warning of run_on_directory for every set of sets, in order.
RECURSIVE skip_warnings(_)
skip_warnings(sets) ==
    IF sets = <<>> THEN <<>>
    ELSE <<LogEntry("warn", "set skipped", <<Head(sets).name, stacker.suffixes[1]>>)>>
         \o skip_warnings(Tail(sets))

\* The assumptions combine_texture_sets asserts about its input sets.
assumptions_hold(input_sets) ==
    \A k \in 1..Len(input_sets) :
        Len(input_sets[k].textures) > 0 /\ input_sets[k].textures[1] # None

\* The early returns with the test of the input directory left out.
early_return_suffixes_only(suffixes, is_dir) == suffixes = <<>>

\* The two early returns of run_on_directory: no suffixes, or an input path
\* that is not a directory.
early_return(suffixes, is_dir) == suffixes = <<>> \/ ~is_dir

\* TextureStacker::run_on_directory up to the entry of combine_texture_sets:
\* the two early returns, the output directory, gathering, and retain.
run_on_directory ==
    /\ pc = "start"
    /\ IF early_return(stacker.suffixes, input_is_dir)
       THEN /\ pc' = "returned_err"
            /\ UNCHANGED <<inputs, dir_created, log, io>>
       ELSE /\ dir_created' = TRUE
            /\ io' = io \o <<IoEvent("create_dir", <<COMBINED_DIRECTORY_NAME>>),
                              IoEvent("read_dir", <<>>)>>
            /\ inputs' = SelectSeq(gathered, valid)
            /\ log' = log \o skip_warnings(SelectSeq(gathered, invalid))
            /\ pc' = IF assumptions_hold(inputs') THEN "masks" ELSE "panicked"
    /\ UNCHANGED <<window, ui_thread, unwritable, listing, disk, gathered, input_is_dir, stacker, set_masks, working_res,
                   suffix_index, set_index, output_image, first, written>>

\* The resolution check comparing heights only.
resolution_mismatch_height_only(res, image_size) ==
    res # <<0, 0>> /\ image_size[2] # res[2]

\* The resolution check left out.
resolution_mismatch_never(res, image_size) == FALSE

\* The resolution check of the mask loop: a working resolution is established
\* and the image's size differs from it.
resolution_mismatch(res, image_size) == res # <<0, 0>> /\ image_size # res

\* The alpha-channel test left out.
lacks_alpha_channel_never(format) == FALSE

\* The alpha-channel test of the mask loop.
lacks_alpha_channel(format) == format.color_type # "Rgba"

\* One iteration of the mask loop of combine_texture_sets.
build_mask ==
    /\ pc = "masks"
    /\ set_index <= Len(inputs)
    /\ LET file_name  == unwrap(inputs[set_index].textures[1])
           image      == read_image_from_file(file_name)
           image_size == <<image.format.width, image.format.height>>
       IN  /\ io' = Append(io, IoEvent("read", file_name))
           /\ IF lacks_alpha_channel(image.format)
              THEN /\ log' = Append(log, LogEntry("error", "no alpha channel", file_name))
                   /\ pc' = "panicked"
                   /\ UNCHANGED <<set_masks, working_res, set_index>>
              ELSE IF image_size = <<0, 0>>
              THEN /\ log' = Append(log, LogEntry("error", "zero sized", file_name))
                   /\ pc' = "panicked"
                   /\ UNCHANGED <<set_masks, working_res, set_index>>
              ELSE IF resolution_mismatch(working_res, image_size)
              THEN /\ log' = Append(log, LogEntry("error", "resolution", file_name))
                   /\ pc' = "panicked"
                   /\ UNCHANGED <<set_masks, working_res, set_index>>
              ELSE /\ working_res' = IF working_res = <<0, 0>> THEN image_size ELSE working_res
                   /\ IF create_mask_panics(image)
                      THEN /\ pc' = "panicked"
                           /\ UNCHANGED <<set_masks, set_index>>
                      ELSE /\ set_masks' = Append(set_masks, create_mask_from_alpha_channel(image))
                           /\ set_index' = set_index + 1
                           /\ pc' = pc
                   /\ log' = log
    /\ UNCHANGED <<window, ui_thread, unwritable, listing, disk, gathered, input_is_dir, stacker, inputs, suffix_index,
                   output_image, first, written, dir_created>>

\* The debug image of one mask: white where true, black where false, opaque.
RECURSIVE mask_image_loop(_, _, _, _)
mask_image_loop(mask, format, buffer, i) ==
    IF i >= Len(mask) THEN buffer
    ELSE mask_image_loop(mask, format,
             pixel_to_bytes(IF mask[i + 1] THEN <<255, 255, 255, 255>>
                                           ELSE <<0, 0, 0, 255>>,
                            format, buffer, i * calc_pixel_stride(format)),
             i + 1)

mask_image(mask) ==
    LET format == Format8(working_res, "Rgba")
    IN  [data |-> mask_image_loop(mask, format,
                      [j \in 1..(Len(mask) * calc_pixel_stride(format)) |-> 0], 0),
         format |-> format]

\* The mask dump giving up at the first mask whose write fails.
RECURSIVE write_mask_files_stop_at_failure(_, _)
write_mask_files_stop_at_failure(files, i) ==
    IF i >= Len(set_masks) THEN files
    ELSE IF write_fails(MaskPath(i)) THEN files
    ELSE write_mask_files_stop_at_failure(
             write_image_to_file(files, MaskPath(i), mask_image(set_masks[i + 1])), i + 1)

\* The files after the masks numbered i.. (0-based) have been written, those
\* left out whose write fails.
RECURSIVE write_mask_files(_, _)
write_mask_files(files, i) ==
    IF i >= Len(set_masks) THEN files
    ELSE IF write_fails(MaskPath(i)) THEN write_mask_files(files, i + 1)
    ELSE write_mask_files(write_image_to_file(files, MaskPath(i), mask_image(set_masks[i + 1])),
                          i + 1)

\* The errors logged for the masks numbered i.. (0-based) whose write fails.
RECURSIVE mask_write_errors(_)
mask_write_errors(i) ==
    IF i >= Len(set_masks) THEN <<>>
    ELSE (IF write_fails(MaskPath(i))
          THEN <<LogEntry("error", "mask not written", MaskPath(i))>> ELSE <<>>)
         \o mask_write_errors(i + 1)

\* The write attempts of the mask dump, in order.
mask_write_events == [i \in 1..Len(set_masks) |-> IoEvent("write", MaskPath(i - 1))]

\* The end of the mask loop: the optional mask dump, then on to compositing.
write_masks ==
    /\ pc = "masks"
    /\ set_index > Len(inputs)
    /\ written' = IF stacker.output_masks THEN write_mask_files(written, 0) ELSE written
    /\ log' = IF stacker.output_masks THEN log \o mask_write_errors(0) ELSE log
    /\ io' = IF stacker.output_masks THEN io \o mask_write_events ELSE io
    /\ pc' = "composite"
    /\ suffix_index' = 1
    /\ set_index' = 1
    /\ output_image' = None
    /\ first' = TRUE
    /\ UNCHANGED <<window, ui_thread, unwritable, listing, disk, gathered, input_is_dir, stacker, inputs, set_masks, working_res,
                   dir_created>>

\* The validation warning about every RGBA layer that meets an RGB output.
validate_format_warn_always(format, output_format, is_mask_source_image) ==
    IF <<format.width, format.height>> # <<output_format.width, output_format.height>>
    THEN "resolution"
    ELSE IF format.bit_depth # output_format.bit_depth
    THEN "bit depth"
    ELSE IF format.color_type = output_format.color_type
    THEN "ok"
    ELSE IF format.color_type = "Rgb" /\ output_format.color_type = "Rgba"
    THEN "ok"
    ELSE IF format.color_type = "Rgba" /\ output_format.color_type = "Rgb"
    THEN "warn"
    ELSE "color type"

\* The validation without the comparison of resolutions.
validate_format_any_resolution(format, output_format, is_mask_source_image) ==
    IF format.bit_depth # output_format.bit_depth
    THEN "bit depth"
    ELSE IF format.color_type = output_format.color_type
    THEN "ok"
    ELSE IF format.color_type = "Rgb" /\ output_format.color_type = "Rgba"
    THEN "ok"
    ELSE IF format.color_type = "Rgba" /\ output_format.color_type = "Rgb"
    THEN IF is_mask_source_image /\ ~stacker.keep_mask_alpha THEN "ok" ELSE "warn"
    ELSE "color type"

\* The validation without the comparison of bit depths.
validate_format_any_bit_depth(format, output_format, is_mask_source_image) ==
    IF <<format.width, format.height>> # <<output_format.width, output_format.height>>
    THEN "resolution"
    ELSE IF format.color_type = output_format.color_type
    THEN "ok"
    ELSE IF format.color_type = "Rgb" /\ output_format.color_type = "Rgba"
    THEN "ok"
    ELSE IF format.color_type = "Rgba" /\ output_format.color_type = "Rgb"
    THEN IF is_mask_source_image /\ ~stacker.keep_mask_alpha THEN "ok" ELSE "warn"
    ELSE "color type"

\* The outcome of validating a layer's format against the output image's:
\* "ok", "warn" (unexpected alpha, discarded) or the kind of the fatal error.
validate_format(format, output_format, is_mask_source_image) ==
    IF <<format.width, format.height>> # <<output_format.width, output_format.height>>
    THEN "resolution"
    ELSE IF format.bit_depth # output_format.bit_depth
    THEN "bit depth"
    ELSE IF format.color_type = output_format.color_type
    THEN "ok"
    ELSE IF format.color_type = "Rgb" /\ output_format.color_type = "Rgba"
    THEN "ok"
    ELSE IF format.color_type = "Rgba" /\ output_format.color_type = "Rgb"
    THEN IF is_mask_source_image /\ ~stacker.keep_mask_alpha THEN "ok" ELSE "warn"
    ELSE "color type"

\* The output format taking the channel layout of the layer in every case.
new_output_format_layer_channels(format, is_mask_source_image) == format

\* The format of the output image created from the first contributing layer.
new_output_format(format, is_mask_source_image) ==
    IF is_mask_source_image /\ ~stacker.keep_mask_alpha
    THEN [format EXCEPT !.color_type = "Rgb"]
    ELSE format

\* The output image sized by the stride of the layer instead of the output's.
new_output_image_layer_stride(format, is_mask_source_image) ==
    [data |-> [j \in 1..(format.width * format.height * calc_pixel_stride(format)) |-> 0],
     format |-> new_output_format(format, is_mask_source_image)]

\* The zeroed output image created from the first contributing layer.
new_output_image(format, is_mask_source_image) ==
    LET output_format == new_output_format(format, is_mask_source_image)
    IN  [data |-> [j \in 1..(format.width * format.height
                               * calc_pixel_stride(output_format)) |-> 0],
         format |-> output_format]

\* One iteration of the inner compositing loop: the layer of set set_index for
\* suffix suffix_index is skipped, or validated and copied into the output.
composite_layer ==
    /\ pc = "composite"
    /\ set_index <= Len(inputs)
    /\ IF inputs[set_index].textures[suffix_index] = None
       THEN /\ set_index' = set_index + 1
            /\ UNCHANGED <<pc, output_image, first, log, io>>
       ELSE LET texture_filename     == unwrap(inputs[set_index].textures[suffix_index])
                image                == read_image_from_file(texture_filename)
                is_mask_source_image == suffix_index = 1
                verdict == IF output_image # None
                           THEN validate_format(image.format, unwrap(output_image).format,
                                                is_mask_source_image)
                           ELSE IF calc_pixel_stride(new_output_format(image.format,
                                                         is_mask_source_image)) = 0
                           THEN "unsupported"
                           ELSE "ok"
                dest    == IF output_image # None THEN unwrap(output_image)
                           ELSE new_output_image(image.format, is_mask_source_image)
            IN  /\ io' = Append(io, IoEvent("read", texture_filename))
                /\ IF verdict \notin {"ok", "warn"}
                   THEN /\ pc' = "panicked"
                        /\ log' = Append(log, LogEntry("error", verdict, texture_filename))
                        /\ UNCHANGED <<set_index, output_image, first>>
                   ELSE /\ log' = IF verdict = "warn"
                                  THEN Append(log, LogEntry("warn", "unexpected alpha",
                                                            texture_filename))
                                  ELSE log
                        /\ IF first
                           THEN IF copy_image_panics(image, dest)
                                THEN /\ pc' = "panicked"
                                     /\ output_image' = Some(dest)
                                     /\ UNCHANGED <<set_index, first>>
                                ELSE /\ output_image' = Some(copy_image(image, dest))
                                     /\ first' = FALSE
                                     /\ set_index' = set_index + 1
                                     /\ pc' = pc
                           ELSE IF copy_image_masked_panics(image, dest, set_masks[set_index])
                                THEN /\ pc' = "panicked"
                                     /\ UNCHANGED <<set_index, output_image, first>>
                                ELSE /\ output_image' =
                                          Some(copy_image_masked(image, dest, set_masks[set_index]))
                                     /\ set_index' = set_index + 1
                                     /\ UNCHANGED <<pc, first>>
    /\ UNCHANGED <<window, ui_thread, unwritable, listing, disk, gathered, input_is_dir, stacker, inputs, set_masks, working_res,
                   suffix_index, written, dir_created>>

\* The end of the inner loop ending the run at a suffix without output image.
write_output_stops_at_empty ==
    /\ pc = "composite"
    /\ set_index > Len(inputs)
    /\ LET output_file == OutputPath(stacker.suffixes[suffix_index])
       IN  IF output_image # None /\ write_fails(output_file)
           THEN /\ io' = Append(io, IoEvent("write", output_file))
                /\ pc' = "returned_err"
                /\ UNCHANGED <<written, suffix_index, set_index, output_image, first>>
           ELSE /\ written' = IF output_image # None
                               THEN write_image_to_file(written, output_file,
                                                        unwrap(output_image))
                               ELSE written
                /\ io' = IF output_image # None
                          THEN Append(io, IoEvent("write", output_file))
                          ELSE io
                /\ IF suffix_index < Len(stacker.suffixes) /\ output_image # None
                   THEN /\ suffix_index' = suffix_index + 1
                        /\ set_index' = 1
                        /\ output_image' = None
                        /\ first' = TRUE
                        /\ pc' = pc
                   ELSE /\ pc' = "done"
                        /\ UNCHANGED <<suffix_index, set_index, output_image, first>>
    /\ UNCHANGED <<window, ui_thread, unwritable, listing, disk, gathered, input_is_dir, stacker, inputs,
                   set_masks, working_res, dir_created, log>>

\* The end of the inner loop with the result of the write dropped: the
\* outer loop goes on after an output that could not be written.
write_output_ignores_error ==
    /\ pc = "composite"
    /\ set_index > Len(inputs)
    /\ LET output_file == OutputPath(stacker.suffixes[suffix_index])
       IN  /\ written' = IF output_image # None /\ ~write_fails(output_file)
                          THEN write_image_to_file(written, output_file,
                                                   unwrap(output_image))
                          ELSE written
           /\ io' = IF output_image # None
                     THEN Append(io, IoEvent("write", output_file))
                     ELSE io
           /\ IF suffix_index < Len(stacker.suffixes)
              THEN /\ suffix_index' = suffix_index + 1
                   /\ set_index' = 1
                   /\ output_image' = None
                   /\ first' = TRUE
                   /\ pc' = pc
              ELSE /\ pc' = "done"
                   /\ UNCHANGED <<suffix_index, set_index, output_image, first>>
    /\ UNCHANGED <<window, ui_thread, unwritable, listing, disk, gathered, input_is_dir, stacker, inputs,
                   set_masks, working_res, dir_created, log>>

\* The end of the inner loop: the output of the suffix is written if any set
\* contributed, which ends the run with an error when the write fails, and the
\* outer loop moves to the next suffix or ends the run.
write_output ==
    /\ pc = "composite"
    /\ set_index > Len(inputs)
    /\ LET output_file == OutputPath(stacker.suffixes[suffix_index])
       IN  IF output_image # None /\ write_fails(output_file)
           THEN /\ io' = Append(io, IoEvent("write", output_file))
                /\ pc' = "returned_err"
                /\ UNCHANGED <<written, suffix_index, set_index, output_image, first>>
           ELSE /\ written' = IF output_image # None
                               THEN write_image_to_file(written, output_file,
                                                        unwrap(output_image))
                               ELSE written
                /\ io' = IF output_image # None
                          THEN Append(io, IoEvent("write", output_file))
                          ELSE io
                /\ IF suffix_index < Len(stacker.suffixes)
                   THEN /\ suffix_index' = suffix_index + 1
                        /\ set_index' = 1
                        /\ output_image' = None
                        /\ first' = TRUE
                        /\ pc' = pc
                   ELSE /\ pc' = "done"
                        /\ UNCHANGED <<suffix_index, set_index, output_image, first>>
    /\ UNCHANGED <<window, ui_thread, unwritable, listing, disk, gathered, input_is_dir, stacker, inputs,
                   set_masks, working_res, dir_created, log>>

Next ==
    \/ run_on_directory
    \/ build_mask
    \/ write_masks
    \/ composite_layer
    \/ write_output

Spec == Init /\ [][Next]_vars

----------------------------------------------------------------------------
(* Runs over files of mixed formats *)

\* Largest number of texture sets of a run over files of mixed formats.
MaxFormatSets == 2

\* The decoded content of the file of set k for suffix s in the format that
\* choice ch names; the alpha of an RGBA pixel is the last byte of the pixel.
FormatImage(k, s, ch) ==
    LET format == [width |-> ch.res[1], height |-> ch.res[2],
                   color_type |-> ch.color_type, bit_depth |-> ch.bit_depth]
        stride == calc_pixel_stride(format)
    IN  [data |-> [j \in 1..(num_pixels_of(format) * stride) |->
                      LET i == (j - 1) \div stride
                          c == (j - 1) % stride
                      IN  CASE c = stride - 1 /\ ch.color_type = "Rgba" -> ch.alphas[i + 1]
                            [] c = 0 -> 16 * k + s
                            [] c = 1 -> 50 + i
                            [] c = 2 -> 200 - k
                            [] OTHER -> 100 + c],
         format |-> format]

FormatChoice(res, color_type, bit_depth, alphas) ==
    [res |-> res, color_type |-> color_type, bit_depth |-> bit_depth, alphas |-> alphas]

NoFile == FormatChoice(<<0, 0>>, "absent", "absent", <<>>)

\* Mask-source files: RGBA with a mask true at some pixels, RGBA with a mask
\* false everywhere, RGB (no alpha channel), and RGBA of width 0.
FormatMaskSources ==
    {FormatChoice(<<2, 2>>, "Rgba", "Eight", <<0, 255, 255, 255>>),
     FormatChoice(<<2, 2>>, "Rgba", "Eight", <<0, 0, 0, 0>>),
     FormatChoice(<<2, 2>>, "Rgb", "Eight", <<>>),
     FormatChoice(<<0, 2>>, "Rgba", "Eight", <<>>)}

\* Files of the other suffix: absent, 8-bit RGB or RGBA, 16-bit RGB or RGBA,
\* or 8-bit RGB of another resolution.
FormatLayers ==
    {NoFile,
     FormatChoice(<<2, 2>>, "Rgb", "Eight", <<>>),
     FormatChoice(<<2, 2>>, "Rgba", "Eight", <<255, 7, 0, 255>>),
     FormatChoice(<<2, 2>>, "Rgb", "Sixteen", <<>>),
     FormatChoice(<<2, 2>>, "Rgba", "Sixteen", <<255, 7, 0, 255>>),
     FormatChoice(<<1, 2>>, "Rgb", "Eight", <<>>)}

InitFormats ==
    /\ pc = "start"
    /\ input_is_dir = TRUE
    /\ stacker \in [keep_mask_alpha : BOOLEAN, output_masks : BOOLEAN,
                    suffixes : {DefaultSuffixes}, output_texture_name : {"Output"}]
    /\ \E n \in 1..MaxFormatSets :
         \E choice \in [1..n -> FormatMaskSources \X FormatLayers] :
            /\ gathered =
                 [k \in 1..n |->
                    [name |-> SetNames[k],
                     textures |-> [s \in 1..2 |->
                                     IF choice[k][s] = NoFile THEN None
                                     ELSE Some(FileName(k, DefaultSuffixes[s]))]]]
            /\ disk =
                 [f \in {FileName(k, DefaultSuffixes[s]) :
                           <<k, s>> \in {ks \in (1..n) \X (1..2) :
                                           choice[ks[1]][ks[2]] # NoFile}} |->
                    LET k == CHOOSE k \in 1..n : SetNames[k] = f[1]
                        s == CHOOSE s \in 1..2 : DefaultSuffixes[s] = f[2]
                    IN  FormatImage(k, s, choice[k][s])]
    /\ inputs = <<>>
    /\ set_masks = <<>>
    /\ working_res = <<0, 0>>
    /\ suffix_index = 1
    /\ set_index = 1
    /\ output_image = None
    /\ first = TRUE
    /\ written = <<>>
    /\ dir_created = FALSE
    /\ log = <<>>
    /\ listing = <<>>
    /\ unwritable = {}
    /\ io = <<>>
    /\ window = MainWindow_new(<<>>)
    /\ ui_thread = "running"

SpecFormats == InitFormats /\ [][Next]_vars

----------------------------------------------------------------------------
(* Runs with a configured list of three suffixes *)

\* Largest number of texture sets of a run with three suffixes.
MaxSuffixSets == 2

\* A suffix list of the configuration: the first three of Config::default.
ConfiguredSuffixes == <<"_D", "_N", "_E">>

\* Files of the mask-source suffix: absent, or RGBA.
SuffixMaskSources == {Absent, [res |-> <<2, 2>>, color_type |-> "Rgba",
                               alphas |-> <<0, 255, 255, 255>>]}

\* Files of the other suffixes: absent, RGB, or RGB of another resolution.
SuffixLayers == {Absent,
                 [res |-> <<2, 2>>, color_type |-> "Rgb", alphas |-> <<>>],
                 [res |-> <<1, 2>>, color_type |-> "Rgb", alphas |-> <<>>]}

InitSuffixes ==
    /\ pc = "start"
    /\ input_is_dir = TRUE
    /\ stacker \in [keep_mask_alpha : BOOLEAN, output_masks : BOOLEAN,
                    suffixes : {ConfiguredSuffixes}, output_texture_name : {"Output"}]
    /\ \E n \in 0..MaxSuffixSets :
         \E choice \in [1..n -> SuffixMaskSources \X SuffixLayers \X SuffixLayers] :
            /\ gathered =
                 [k \in 1..n |->
                    [name |-> SetNames[k],
                     textures |-> [s \in 1..3 |->
                                     IF choice[k][s] = Absent THEN None
                                     ELSE Some(FileName(k, ConfiguredSuffixes[s]))]]]
            /\ disk =
                 [f \in {FileName(k, ConfiguredSuffixes[s]) :
                           <<k, s>> \in {ks \in (1..n) \X (1..3) :
                                           choice[ks[1]][ks[2]] # Absent}} |->
                    LET k == CHOOSE k \in 1..n : SetNames[k] = f[1]
                        s == CHOOSE s \in 1..3 : ConfiguredSuffixes[s] = f[2]
                    IN  FileImage(k, s, choice[k][s].res, choice[k][s].color_type,
                                  choice[k][s].alphas)]
    /\ inputs = <<>>
    /\ set_masks = <<>>
    /\ working_res = <<0, 0>>
    /\ suffix_index = 1
    /\ set_index = 1
    /\ output_image = None
    /\ first = TRUE
    /\ written = <<>>
    /\ dir_created = FALSE
    /\ log = <<>>
    /\ listing = <<>>
    /\ unwritable \in SUBSET {OutputPath(ConfiguredSuffixes[2])}
    /\ io = <<>>
    /\ window = MainWindow_new(<<>>)
    /\ ui_thread = "running"

SpecSuffixes == InitSuffixes /\ [][Next]_vars

----------------------------------------------------------------------------
(* Runs in which writing a file may fail *)

\* Largest number of texture sets of a run with failing writes.
MaxWriteSets == 2

\* The paths a run of MaxWriteSets sets and the default suffixes may write.
WritePaths ==
    {MaskPath(i) : i \in 0..(MaxWriteSets - 1)}
        \cup {OutputPath(DefaultSuffixes[s]) : s \in 1..Len(DefaultSuffixes)}

InitWrites ==
    /\ pc = "start"
    /\ input_is_dir = TRUE
    /\ stacker \in [keep_mask_alpha : BOOLEAN, output_masks : BOOLEAN,
                    suffixes : {DefaultSuffixes}, output_texture_name : {"Output"}]
    /\ unwritable \in SUBSET WritePaths
    /\ \E n \in 1..MaxWriteSets :
         \E choice \in [1..n -> {Absent, [res |-> <<2, 2>>, color_type |-> "Rgb",
                                          alphas |-> <<>>]}] :
            /\ gathered =
                 [k \in 1..n |->
                    [name |-> SetNames[k],
                     textures |-> [s \in 1..2 |->
                                     IF s = 2 /\ choice[k] = Absent THEN None
                                     ELSE Some(FileName(k, DefaultSuffixes[s]))]]]
            /\ disk =
                 [f \in {FileName(k, DefaultSuffixes[s]) :
                           <<k, s>> \in {ks \in (1..n) \X (1..2) :
                                           ks[2] = 1 \/ choice[ks[1]] # Absent}} |->
                    LET k == CHOOSE k \in 1..n : SetNames[k] = f[1]
                        s == CHOOSE s \in 1..2 : DefaultSuffixes[s] = f[2]
                    IN  IF s = 1
                        THEN FileImage(k, s, <<2, 2>>, "Rgba",
                                       IF k = 1 THEN <<255, 255, 255, 255>>
                                                ELSE <<0, 255, 0, 255>>)
                        ELSE FileImage(k, s, <<2, 2>>, "Rgb", <<>>)]
    /\ inputs = <<>>
    /\ set_masks = <<>>
    /\ working_res = <<0, 0>>
    /\ suffix_index = 1
    /\ set_index = 1
    /\ output_image = None
    /\ first = TRUE
    /\ written = <<>>
    /\ dir_created = FALSE
    /\ log = <<>>
    /\ listing = <<>>
    /\ io = <<>>
    /\ window = MainWindow_new(<<>>)
    /\ ui_thread = "running"

SpecWrites == InitWrites /\ [][Next]_vars

----------------------------------------------------------------------------
(* Grouping the files of the input directory *)

\* Largest number of entries of the input directory.
MaxFiles == 4

\* The character the stem of a file name is split at.
Underscore == 95

\* A directory entry: the stem of its file name as character codes, and its
\* extension.
Entry(stem, ext) == [stem |-> stem, ext |-> ext]

\* The entries a directory may hold: A_D.png, A_N.png, B_D.png, A_B_D.png,
\* _D.png, A_X.png, AB.png and A_D.txt.
DirectoryEntries ==
    {Entry(<<65, 95, 68>>, "png"), Entry(<<65, 95, 78>>, "png"),
     Entry(<<66, 95, 68>>, "png"), Entry(<<65, 95, 66, 95, 68>>, "png"),
     Entry(<<95, 68>>, "png"), Entry(<<65, 95, 88>>, "png"),
     Entry(<<65, 66>>, "png"), Entry(<<65, 95, 68>>, "txt")}

\* The suffixes "_D" and "_N" as character codes.
SuffixStrings == <<<<95, 68>>, <<95, 78>>>>

\* The search for the first underscore instead of the last.
rfind_first(stem) ==
    LET found == {i \in 1..Len(stem) : stem[i] = Underscore}
    IN  IF found = {} THEN None
        ELSE Some((CHOOSE i \in found : \A j \in found : i <= j) - 1)

\* str::rfind('_'): the 0-based position of the last underscore, if any.
rfind(stem) ==
    LET found == {i \in 1..Len(stem) : stem[i] = Underscore}
    IN  IF found = {} THEN None
        ELSE Some((CHOOSE i \in found : \A j \in found : j <= i) - 1)

\* suffix_from_filename: the stem from its last underscore on, if any.
suffix_from_filename(filename) ==
    IF rfind(filename.stem) = None THEN None
    ELSE Some(SubSeq(filename.stem, unwrap(rfind(filename.stem)) + 1, Len(filename.stem)))

\* The order of String keys: byte-wise lexicographic.
RECURSIVE string_less(_, _)
string_less(a, b) ==
    IF b = <<>> THEN FALSE
    ELSE IF a = <<>> THEN TRUE
    ELSE IF a[1] # b[1] THEN a[1] < b[1]
    ELSE string_less(Tail(a), Tail(b))

\* The position (1-based) of key pre in the map, or 0.
map_position(map, pre) ==
    IF \E j \in 1..Len(map) : map[j].key = pre
    THEN CHOOSE j \in 1..Len(map) : map[j].key = pre
    ELSE 0

\* A map that keeps its keys in the order of their first insertion.
map_push_insertion_order(map, pre, path) ==
    IF map_position(map, pre) # 0
    THEN [map EXCEPT ![map_position(map, pre)].files = Append(@, path)]
    ELSE Append(map, [key |-> pre, files |-> <<path>>])

\* The get_mut / insert of collect_and_group_files_by_name on the BTreeMap,
\* which is held as the sequence of its entries in key order.
map_push(map, pre, path) ==
    IF map_position(map, pre) # 0
    THEN [map EXCEPT ![map_position(map, pre)].files = Append(@, path)]
    ELSE LET below == Cardinality({j \in 1..Len(map) : string_less(map[j].key, pre)})
         IN  SubSeq(map, 1, below) \o <<[key |-> pre, files |-> <<path>>]>>
             \o SubSeq(map, below + 1, Len(map))

\* The loop of collect_and_group_files_by_name from entry i (1-based) on.
RECURSIVE collect_loop(_, _, _)
collect_loop(entries, i, map) ==
    IF i > Len(entries) THEN map
    ELSE LET path == entries[i]
             pos  == rfind(path.stem)
         IN  IF path.ext # "png" \/ pos = None
             THEN collect_loop(entries, i + 1, map)
             ELSE collect_loop(entries, i + 1,
                      map_push(map, SubSeq(path.stem, 1, unwrap(pos)), path))

collect_and_group_files_by_name(entries) == collect_loop(entries, 1, <<>>)

\* The first file of textures whose suffix is suffix, if any.
find_texture(textures, suffix) ==
    LET found == {j \in 1..Len(textures) : suffix_from_filename(textures[j]) = Some(suffix)}
    IN  IF found = {} THEN None
        ELSE Some(textures[CHOOSE j \in found : \A i \in found : j <= i])

\* gather_texture_sets_from_directory: one set per key of the map, in the
\* map's order, with one slot per suffix.
gather_texture_sets_from_directory(entries, suffixes) ==
    LET files == collect_and_group_files_by_name(entries)
    IN  [k \in 1..Len(files) |->
            [name     |-> files[k].key,
             textures |-> [i \in 1..Len(suffixes) |->
                              find_texture(files[k].files, suffixes[i])]]]

\* The orders in which read_dir may yield the entries of listing.
Listings(entries) ==
    {[i \in 1..Len(entries) |-> entries[order[i]]] : order \in Permutations(1..Len(entries))}

InitGrouping ==
    /\ pc = "list"
    /\ \E files \in SUBSET DirectoryEntries :
          /\ Cardinality(files) <= MaxFiles
          /\ \E order \in [1..Cardinality(files) -> files] :
                /\ \A i, j \in 1..Cardinality(files) : order[i] = order[j] => i = j
                /\ listing = order
    /\ input_is_dir = TRUE
    /\ stacker \in [keep_mask_alpha : {FALSE}, output_masks : {FALSE},
                    suffixes : {SuffixStrings}, output_texture_name : {"Output"}]
    /\ gathered = <<>>
    /\ disk = <<>>
    /\ inputs = <<>>
    /\ set_masks = <<>>
    /\ working_res = <<0, 0>>
    /\ suffix_index = 1
    /\ set_index = 1
    /\ output_image = None
    /\ first = TRUE
    /\ written = <<>>
    /\ dir_created = FALSE
    /\ log = <<>>
    /\ unwritable = {}
    /\ io = <<>>
    /\ window = MainWindow_new(<<>>)
    /\ ui_thread = "running"

\* The directory is grouped in the order read_dir yielded its entries.
gather ==
    /\ pc \in {"list", "relisted"}
    /\ gathered' = gather_texture_sets_from_directory(listing, stacker.suffixes)
    /\ pc' = IF pc = "list" THEN "gathered" ELSE "regathered"
    /\ UNCHANGED <<window, ui_thread, unwritable, io, listing, disk, input_is_dir, stacker, inputs, set_masks, working_res,
                   suffix_index, set_index, output_image, first, written, dir_created, log>>

\* Another run on the same directory: read_dir yields the same entries in
\* some order.
read_dir ==
    /\ pc \in {"gathered", "regathered"}
    /\ listing' \in Listings(listing)
    /\ pc' = "relisted"
    /\ UNCHANGED <<window, ui_thread, unwritable, io, gathered, disk, input_is_dir, stacker, inputs, set_masks, working_res,
                   suffix_index, set_index, output_image, first, written, dir_created, log>>

NextGrouping ==
    \/ gather
    \/ read_dir

SpecGrouping == InitGrouping /\ [][NextGrouping]_vars

----------------------------------------------------------------------------
(* Vocabulary of the properties *)

SuffixIndices == 1..Len(stacker.suffixes)

HasLayer(k, s) == inputs[k].textures[s] # None

LayerOf(k, s) == disk[unwrap(inputs[k].textures[s])]

\* The sets that contribute a layer to suffix s, and the first of them.
Contributing(s) == {k \in 1..Len(inputs) : HasLayer(k, s)}

FirstContributing(s) == CHOOSE k \in Contributing(s) : \A j \in Contributing(s) : k <= j

LaterContributing(s) == Contributing(s) \ {FirstContributing(s)}

Last(S) == CHOOSE k \in S : \A j \in S : j <= k

PixelsOf(image) == 0..(num_pixels_of(image.format) - 1)

\* The r, g, b bytes of pixel p (0-based) of an 8-bit image.
ColourAt(image, p) ==
    LET stride == IF image.format.color_type = "Rgba" THEN 4 ELSE 3
    IN  <<image.data[p * stride + 1], image.data[p * stride + 2], image.data[p * stride + 3]>>

\* All bytes of pixel p (0-based) of an image.
BytesAt(image, p) ==
    LET stride == Len(image.data) \div num_pixels_of(image.format)
    IN  [c \in 1..stride |-> image.data[p * stride + c]]

\* The alpha byte of pixel p of the mask-source layer of set k is not 0.
AlphaNonZero(k, p) == LayerOf(k, 1).data[p * 4 + 4] # 0

OutputWritten(s) == OutputPath(stacker.suffixes[s]) \in DOMAIN written

Output(s) == written[OutputPath(stacker.suffixes[s])]

\* The later contributing sets of suffix s whose mask covers pixel p.
Covering(s, p) == {k \in LaterContributing(s) : AlphaNonZero(k, p)}

----------------------------------------------------------------------------
(* C1: in every written output, a pixel covered by the mask of one or more   *)
(* contributing sets other than the first carries the colour of the layer of *)
(* the last such set in grouping order (later set wins).                     *)
C1_LaterSetWins ==
    \A s \in SuffixIndices :
        OutputWritten(s) =>
            \A p \in PixelsOf(Output(s)) :
                Covering(s, p) # {} =>
                    ColourAt(Output(s), p) = ColourAt(LayerOf(Last(Covering(s, p)), s), p)

\* An output is written in which two later sets cover the same pixel.
C1_Witness ==
    \E s \in SuffixIndices :
        /\ OutputWritten(s)
        /\ \E p \in PixelsOf(Output(s)) : Cardinality(Covering(s, p)) >= 2

(* C2: in every written output, a pixel that no later contributing set's     *)
(* mask covers carries the colour of the first contributing set's layer,     *)
(* whatever that set's own mask says.                                        *)
C2_FirstLayerUnmasked ==
    \A s \in SuffixIndices :
        OutputWritten(s) =>
            \A p \in PixelsOf(Output(s)) :
                Covering(s, p) = {} =>
                    ColourAt(Output(s), p) = ColourAt(LayerOf(FirstContributing(s), s), p)

\* An output is written with a pixel that no later set covers and at which
\* the first contributing set's own mask is false.
C2_Witness ==
    \E s \in SuffixIndices :
        /\ OutputWritten(s)
        /\ \E p \in PixelsOf(Output(s)) :
              /\ Covering(s, p) = {}
              /\ ~AlphaNonZero(FirstContributing(s), p)
              /\ LaterContributing(s) # {}

\* A step that overlays the layer of a later contributing set.
MaskedOverlayStep ==
    /\ pc = "composite"
    /\ set_index <= Len(inputs)
    /\ HasLayer(set_index, suffix_index)
    /\ ~first
    /\ pc' = "composite"

(* C3: a masked overlay leaves every byte of every output pixel at which the *)
(* overlaid set's mask is false unchanged, and keeps the format and length   *)
(* of the output buffer.                                                     *)
C3_MaskedOverlayFrame ==
    [][MaskedOverlayStep =>
          /\ unwrap(output_image').format = unwrap(output_image).format
          /\ Len(unwrap(output_image').data) = Len(unwrap(output_image).data)
          /\ \A p \in PixelsOf(unwrap(output_image)) :
                ~AlphaNonZero(set_index, p) =>
                    BytesAt(unwrap(output_image'), p) = BytesAt(unwrap(output_image), p)]_vars

\* The layer just overlaid belongs to a later contributing set whose mask is
\* false at a pixel where the output holds another set's colour.
C3_Witness ==
    /\ pc = "composite"
    /\ set_index > 1
    /\ HasLayer(set_index - 1, suffix_index)
    /\ (set_index - 1) \in LaterContributing(suffix_index)
    /\ \E p \in PixelsOf(unwrap(output_image)) :
          /\ ~AlphaNonZero(set_index - 1, p)
          /\ ColourAt(unwrap(output_image), p)
               # ColourAt(LayerOf(set_index - 1, suffix_index), p)
    /\ \E p \in PixelsOf(unwrap(output_image)) : AlphaNonZero(set_index - 1, p)

\* Sets A and B are later contributing sets of the current suffix whose masks
\* are true at no common pixel, each being true somewhere.
DisjointLaterPair(A, B) ==
    /\ A # B
    /\ {A, B} \subseteq LaterContributing(suffix_index)
    /\ \A i \in 1..Len(set_masks[A]) : ~(set_masks[A][i] /\ set_masks[B][i])
    /\ \E i \in 1..Len(set_masks[A]) : set_masks[A][i]
    /\ \E i \in 1..Len(set_masks[B]) : set_masks[B][i]

(* C4: for two later contributing sets A and B with disjoint masks, overlaying *)
(* A then B onto the current output gives the same buffer as B then A.         *)
C4_DisjointOverlaysCommute ==
    (pc = "composite" /\ output_image # None) =>
        \A A, B \in 1..Len(inputs) :
            DisjointLaterPair(A, B) =>
                copy_image_masked(LayerOf(B, suffix_index),
                    copy_image_masked(LayerOf(A, suffix_index), unwrap(output_image),
                                      set_masks[A]),
                    set_masks[B])
                = copy_image_masked(LayerOf(A, suffix_index),
                    copy_image_masked(LayerOf(B, suffix_index), unwrap(output_image),
                                      set_masks[B]),
                    set_masks[A])

\* Compositing has an output and two later sets with disjoint, non-empty masks.
C4_Witness ==
    /\ pc = "composite"
    /\ output_image # None
    /\ \E A, B \in 1..Len(inputs) : DisjointLaterPair(A, B)

\* Scenario A: suffix list ["_D"], sets Body and Doors, both 2x2 RGBA; Body's
\* layer is fully opaque, Doors' has alpha 0 at pixel 0 and 255 elsewhere.
ScenarioA ==
    /\ stacker.suffixes = <<"_D">>
    /\ Len(gathered) = 2
    /\ gathered[1].textures = <<Some(<<"Body", "_D">>)>>
    /\ gathered[2].textures = <<Some(<<"Doors", "_D">>)>>
    /\ disk[<<"Body", "_D">>].format = Format8(<<2, 2>>, "Rgba")
    /\ disk[<<"Doors", "_D">>].format = Format8(<<2, 2>>, "Rgba")
    /\ \A p \in 0..3 : disk[<<"Body", "_D">>].data[p * 4 + 4] = 255
    /\ disk[<<"Doors", "_D">>].data[4] = 0
    /\ \A p \in 1..3 : disk[<<"Doors", "_D">>].data[p * 4 + 4] = 255

(* C5: scenario A never fails, and when it is done the written "_D" output   *)
(* has Body's colour at pixel 0 and Doors' colour at pixels 1, 2 and 3.      *)
C5_ScenarioA ==
    ScenarioA =>
        /\ pc \notin {"panicked", "returned_err"}
        /\ pc = "done" =>
              /\ OutputPath("_D") \in DOMAIN written
              /\ num_pixels_of(written[OutputPath("_D")].format) = 4
              /\ ColourAt(written[OutputPath("_D")], 0) = ColourAt(disk[<<"Body", "_D">>], 0)
              /\ \A p \in 1..3 :
                    ColourAt(written[OutputPath("_D")], p)
                      = ColourAt(disk[<<"Doors", "_D">>], p)

\* Scenario A has run to its end.
C5_Witness == ScenarioA /\ pc = "done"

(* C6: every mask built so far has width*height entries, and entry i is true *)
(* exactly when the alpha byte of pixel i of the set's mask-source layer is  *)
(* not 0; once compositing starts every input set has its mask.              *)
C6_MaskPointwise ==
    /\ Len(set_masks) <= Len(inputs)
    /\ pc \in {"composite", "done"} => Len(set_masks) = Len(inputs)
    /\ \A k \in 1..Len(set_masks) :
          /\ Len(set_masks[k]) = LayerOf(k, 1).format.width * LayerOf(k, 1).format.height
          /\ \A i \in 0..(Len(set_masks[k]) - 1) :
                set_masks[k][i + 1] = (LayerOf(k, 1).data[i * 4 + 4] # 0)

\* A mask has been built that is true at a pixel whose alpha is neither 0 nor
\* 255 and false at another pixel.
C6_Witness ==
    \E k \in 1..Len(set_masks) :
        /\ \E i \in 0..(Len(set_masks[k]) - 1) :
              set_masks[k][i + 1] /\ LayerOf(k, 1).data[i * 4 + 4] \notin {0, 255}
        /\ \E i \in 0..(Len(set_masks[k]) - 1) : ~set_masks[k][i + 1]

\* The run has passed the early returns of run_on_directory.
Started == pc \notin {"start", "returned_err"}

\* The index in gathered of the j-th set that has its mask-source layer.
NthValid(j) ==
    CHOOSE g \in 1..Len(gathered) :
        /\ gathered[g].textures[1] # None
        /\ Cardinality({h \in 1..g : gathered[h].textures[1] # None}) = j

NumValid == Cardinality({g \in 1..Len(gathered) : gathered[g].textures[1] # None})

SkipWarnings(name) ==
    {i \in 1..Len(log) : log[i].level = "warn" /\ log[i].kind = "set skipped"
                         /\ log[i].subject[1] = name}

\* Pixel p of image carries the colour that some file of the named set has at p.
CarriesColourOf(image, p, name) ==
    \E f \in DOMAIN disk :
        /\ f[1] = name
        /\ p < num_pixels_of(disk[f].format)
        /\ ColourAt(image, p) = ColourAt(disk[f], p)

(* C7: a gathered set without mask-source layer is not among the input sets  *)
(* of compositing, exactly one skip warning is logged for it, masks and mask *)
(* files are numbered over the remaining sets only, and no written output    *)
(* has a pixel of any of its files.                                          *)
C7_InvalidSetDropped ==
    Started =>
        /\ \A g \in 1..Len(gathered) :
              gathered[g].textures[1] = None =>
                 /\ \A k \in 1..Len(inputs) : inputs[k].name # gathered[g].name
                 /\ Cardinality(SkipWarnings(gathered[g].name)) = 1
                 /\ \A s \in SuffixIndices :
                       OutputWritten(s) =>
                          \A p \in PixelsOf(Output(s)) :
                             ~CarriesColourOf(Output(s), p, gathered[g].name)
        /\ Len(set_masks) <= NumValid
        /\ \A j \in 1..Len(set_masks) :
              \A i \in 0..(Len(set_masks[j]) - 1) :
                 set_masks[j][i + 1]
                   = (disk[unwrap(gathered[NthValid(j)].textures[1])].data[i * 4 + 4] # 0)
        /\ \A i \in 0..Len(gathered) :
              MaskPath(i) \in DOMAIN written =>
                 /\ i < NumValid
                 /\ written[MaskPath(i)].data[1] = IF set_masks[i + 1][1] THEN 255 ELSE 0

\* A run is done in which a set without mask-source layer, but with a layer
\* for another suffix, precedes a set that was composited, masks were dumped
\* and the other suffix has an output.
C7_Witness ==
    /\ pc = "done"
    /\ stacker.output_masks
    /\ Len(stacker.suffixes) = 2
    /\ OutputWritten(2)
    /\ \E g \in 1..Len(gathered) :
          /\ gathered[g].textures[1] = None
          /\ gathered[g].textures[2] # None
          /\ \E h \in (g + 1)..Len(gathered) : gathered[h].textures[1] # None
    /\ MaskPath(0) \in DOMAIN written

\* Scenario C: suffix list ["_D", "_N"] and two sets, both with a "_D" file,
\* of which set x has a "_N" file as well and the other set has none.
ScenarioC(x) ==
    /\ stacker.suffixes = <<"_D", "_N">>
    /\ Len(gathered) = 2
    /\ x \in 1..2
    /\ gathered[1].textures[1] # None /\ gathered[2].textures[1] # None
    /\ gathered[x].textures[2] # None
    /\ gathered[3 - x].textures[2] = None

GatheredLayer(g, s) == disk[unwrap(gathered[g].textures[s])]

(* C8: a pixel of a written output of suffix s always carries the colour of  *)
(* the layer for s of a set that has one, never that of a file of a set      *)
(* without layer for s; in scenario C the "_N" output is the "_N" layer of   *)
(* the one set that has it, and the "_D" output has the second set's colour  *)
(* where the second set's mask is true and the first set's elsewhere.        *)
C8_AbsentLayerSkipped ==
    /\ \A s \in SuffixIndices :
          OutputWritten(s) =>
             \A p \in PixelsOf(Output(s)) :
                /\ \E k \in Contributing(s) :
                      ColourAt(Output(s), p) = ColourAt(LayerOf(k, s), p)
                /\ \A k \in (1..Len(inputs)) \ Contributing(s) :
                      ~CarriesColourOf(Output(s), p, inputs[k].name)
    /\ \A x \in 1..2 :
          (ScenarioC(x) /\ pc = "done") =>
             /\ OutputWritten(2)
             /\ Output(2) = GatheredLayer(x, 2)
             /\ OutputWritten(1)
             /\ \A p \in PixelsOf(Output(1)) :
                   ColourAt(Output(1), p)
                     = IF GatheredLayer(2, 1).data[p * 4 + 4] # 0
                       THEN ColourAt(GatheredLayer(2, 1), p)
                       ELSE ColourAt(GatheredLayer(1, 1), p)

\* Scenario C is done, with the set that has only "_D" having been composited
\* into "_D" through a mask that is true at some pixels and false at others.
C8_Witness ==
    /\ pc = "done"
    /\ ScenarioC(1)
    /\ \E p, q \in PixelsOf(GatheredLayer(2, 1)) :
          /\ GatheredLayer(2, 1).data[p * 4 + 4] # 0
          /\ GatheredLayer(2, 1).data[q * 4 + 4] = 0

\* The resolution of the mask-source layer of gathered set g.
MaskSourceRes(g) ==
    LET format == disk[unwrap(gathered[g].textures[1])].format
    IN  <<format.width, format.height>>

\* Two sets with mask-source layer differ in that layer's resolution.
ResolutionsDiffer ==
    /\ stacker.suffixes # <<>>
    /\ \E g, h \in 1..Len(gathered) :
          /\ gathered[g].textures[1] # None
          /\ gathered[h].textures[1] # None
          /\ MaskSourceRes(g) # MaskSourceRes(h)

(* C9: when the mask-source layers of two valid sets differ in resolution,   *)
(* the run never gets past mask building, it cannot complete the mask loop,  *)
(* and no file is ever written, neither a composite output nor a mask dump.  *)
C9_MismatchFailsBeforeOutput ==
    (ResolutionsDiffer /\ pc # "returned_err") =>
        /\ pc \in {"start", "masks", "panicked"}
        /\ pc = "masks" => set_index <= Len(inputs)
        /\ written = <<>>

\* A run with mask dumping enabled has failed on a resolution mismatch after
\* building a mask.
C9_Witness ==
    /\ ResolutionsDiffer
    /\ pc = "panicked"
    /\ stacker.output_masks
    /\ Len(set_masks) >= 1
    /\ log # <<>> /\ log[Len(log)].kind = "resolution"

InputRes(k) == <<LayerOf(k, 1).format.width, LayerOf(k, 1).format.height>>

(* C10: the working resolution is that of the first input set's mask source; *)
(* no mask is built for a set whose mask source has another resolution, a    *)
(* run with such a set never reaches compositing, and in compositing every   *)
(* input set has a mask of working width * height entries.                   *)
C10_WorkingResolution ==
    /\ set_masks # <<>> => working_res = InputRes(1)
    /\ \A k \in 1..Len(set_masks) : InputRes(k) = working_res
    /\ (Started /\ \E k \in 1..Len(inputs) : InputRes(k) # InputRes(1)) =>
          pc \in {"masks", "panicked"}
    /\ pc \in {"composite", "done"} =>
          /\ Len(set_masks) = Len(inputs)
          /\ \A k \in 1..Len(set_masks) :
                Len(set_masks[k]) = working_res[1] * working_res[2]

\* Compositing is reached with the masks of several sets.
C10_Witness ==
    /\ pc = "composite"
    /\ Len(set_masks) >= 2

----------------------------------------------------------------------------
(* Properties of runs over files of mixed formats *)

InputFormat(k, s) == LayerOf(k, s).format

\* The mask-source layer of input set k has width 0 or height 0.
ZeroDimension(k) == InputFormat(k, 1).width = 0 \/ InputFormat(k, 1).height = 0

(* C11: a mask-source layer of width 0 or of height 0 makes the run fail     *)
(* during mask building: no mask is built from such a layer and the run      *)
(* never gets past mask building.                                            *)
C11_ZeroDimensionFatal ==
    /\ \A k \in 1..Len(set_masks) : ~ZeroDimension(k)
    /\ (Started /\ \E k \in 1..Len(inputs) : ZeroDimension(k)) =>
          pc \in {"masks", "panicked"}

\* The mask-source layer of input set k is not RGBA.
NotRgbaMaskSource(k) == InputFormat(k, 1).color_type # "Rgba"

LastLog == log[Len(log)]

(* C12: a mask-source layer that is not RGBA makes the run fail during mask  *)
(* building: no mask is built for that set, the run never gets past mask     *)
(* building, no file is written, and the failure at that set is the error    *)
(* that names the file as lacking an alpha channel.                          *)
C12_NotRgbaFatal ==
    \A k \in 1..Len(inputs) :
        NotRgbaMaskSource(k) =>
            /\ Len(set_masks) < k
            /\ pc \in {"masks", "panicked"}
            /\ written = <<>>
            /\ (pc = "panicked" /\ Len(set_masks) = k - 1) =>
                  /\ log # <<>>
                  /\ LastLog = LogEntry("error", "no alpha channel",
                                        unwrap(inputs[k].textures[1]))

\* With mask dumping enabled, the run has failed at the second set, whose
\* mask-source layer is RGB, after building the mask of the first.
C12_Witness ==
    /\ pc = "panicked"
    /\ stacker.output_masks
    /\ Len(inputs) = 2 /\ Len(set_masks) = 1
    /\ NotRgbaMaskSource(2)
    /\ LastLog.kind = "no alpha channel"

\* Set k has a 16-bit RGB layer for suffix s.
SixteenBitRgb(k, s) ==
    /\ HasLayer(k, s)
    /\ InputFormat(k, s).bit_depth = "Sixteen"
    /\ InputFormat(k, s).color_type = "Rgb"

\* The mask of set k is true at some pixel.
MaskTrueSomewhere(k) == \E p \in PixelsOf(LayerOf(k, 1)) : AlphaNonZero(k, p)

\* The run has failed while compositing the layer of set k for suffix s.
FailedAt(s, k) ==
    /\ pc = "panicked"
    /\ Len(set_masks) = Len(inputs)
    /\ suffix_index = s /\ set_index = k

\* The run has composited the layer of set k for suffix s and gone on.
Passed(s, k) ==
    \/ pc = "done"
    \/ /\ pc = "composite"
       /\ suffix_index > s \/ (suffix_index = s /\ set_index > k)

\* The layers of sets j and k for suffix s agree in size and bit depth, and
\* the layer of set k has the resolution of the set's mask.
FitsOutputOf(j, k, s) ==
    /\ InputFormat(k, s).width = InputFormat(j, s).width
    /\ InputFormat(k, s).height = InputFormat(j, s).height
    /\ InputFormat(k, s).bit_depth = InputFormat(j, s).bit_depth
    /\ InputRes(k) = <<InputFormat(k, s).width, InputFormat(k, s).height>>

(* C13, as stated: a suffix to which a 16-bit RGB layer contributes gets no  *)
(* output, and a run with such a layer does not complete.                    *)
C13_SixteenBitRgbRejected ==
    \A s \in SuffixIndices :
        (\E k \in Contributing(s) : SixteenBitRgb(k, s)) =>
            /\ ~OutputWritten(s)
            /\ pc # "done"

(* C13, amended: a 16-bit RGB layer of a suffix other than the mask-source   *)
(* suffix is rejected only where one of its pixels has to be decoded. As the *)
(* first contributing layer it is accepted and copied byte for byte into the *)
(* output image; as a later layer under a mask that is true at some pixel it *)
(* makes the run fail and the suffix gets no output; as a later layer that   *)
(* fits the output image, under a mask that is false everywhere, it is       *)
(* accepted.                                                                 *)
C13_SixteenBitRgbDecoded ==
    \A s \in SuffixIndices \ {1} :
        \A k \in Contributing(s) :
            SixteenBitRgb(k, s) =>
                /\ k = FirstContributing(s) =>
                      /\ ~FailedAt(s, k)
                      /\ (pc = "composite" /\ suffix_index = s /\ set_index = k + 1) =>
                            output_image = Some(LayerOf(k, s))
                /\ (k # FirstContributing(s) /\ MaskTrueSomewhere(k)) =>
                      /\ ~Passed(s, k)
                      /\ ~OutputWritten(s)
                /\ (/\ k # FirstContributing(s)
                    /\ ~MaskTrueSomewhere(k)
                    /\ FitsOutputOf(FirstContributing(s), k, s)) =>
                      ~FailedAt(s, k)

\* A run has completed and written a 16-bit RGB output to which two 16-bit
\* RGB layers contributed, the later one under a mask that is false everywhere.
C13_Witness ==
    /\ pc = "done"
    /\ Len(inputs) = 2
    /\ SixteenBitRgb(1, 2) /\ SixteenBitRgb(2, 2)
    /\ ~MaskTrueSomewhere(2)
    /\ OutputWritten(2)
    /\ Output(2) = LayerOf(1, 2)

\* The format the output image of suffix s is to have: size and bit depth of
\* the first contributing layer, RGB for the mask-source suffix when the mask
\* alpha is not kept, else the channel layout of that layer.
ExpectedOutputFormat(s) ==
    LET layer == InputFormat(FirstContributing(s), s)
    IN  [width      |-> layer.width,
         height     |-> layer.height,
         bit_depth  |-> layer.bit_depth,
         color_type |-> IF s = 1 /\ ~stacker.keep_mask_alpha THEN "Rgb"
                        ELSE layer.color_type]

(* C14: whenever an output image exists for the suffix being composited, a   *)
(* layer contributes to that suffix and the image has the format derived     *)
(* from the first contributing layer, however many later layers have been    *)
(* processed; every written output has the format derived from the first     *)
(* contributing layer of its suffix.                                         *)
C14_OutputFormatFromFirstLayer ==
    /\ output_image # None =>
          /\ Contributing(suffix_index) # {}
          /\ unwrap(output_image).format = ExpectedOutputFormat(suffix_index)
    /\ \A s \in SuffixIndices :
          OutputWritten(s) => Output(s).format = ExpectedOutputFormat(s)

\* A run has completed in which the output of the mask-source suffix is RGB
\* though its layers are RGBA, and the output of the other suffix was made
\* from an RGB layer and later received an RGBA layer.
C14_Witness ==
    /\ pc = "done"
    /\ Len(inputs) = 2
    /\ OutputWritten(1) /\ Output(1).format.color_type = "Rgb"
    /\ InputFormat(1, 1).color_type = "Rgba"
    /\ OutputWritten(2) /\ Output(2).format.color_type = "Rgb"
    /\ HasLayer(1, 2) /\ HasLayer(2, 2)
    /\ InputFormat(2, 2).color_type = "Rgba"

\* The layer the compositing loop is about to process, and its file.
CurrentFile == unwrap(inputs[set_index].textures[suffix_index])

CurrentLayer == LayerOf(set_index, suffix_index)

\* A compositing step that takes an RGBA layer into an RGB output image: one
\* that exists with the layer's size and bit depth, or one that the step
\* creates for the mask-source suffix when the mask alpha is not kept.
RgbaIntoRgbStep ==
    /\ pc = "composite"
    /\ set_index <= Len(inputs)
    /\ HasLayer(set_index, suffix_index)
    /\ CurrentLayer.format.color_type = "Rgba"
    /\ IF output_image # None
       THEN /\ unwrap(output_image).format =
                  [CurrentLayer.format EXCEPT !.color_type = "Rgb"]
       ELSE suffix_index = 1 /\ ~stacker.keep_mask_alpha

\* The step warns about the layer's alpha channel exactly when it is not the
\* mask-source suffix composited without keeping the mask alpha.
WarnsUnlessMaskSource ==
    IF suffix_index = 1 /\ ~stacker.keep_mask_alpha
    THEN log' = log
    ELSE log' = Append(log, LogEntry("warn", "unexpected alpha", CurrentFile))

\* The run goes on, the output is RGB with three bytes per pixel, every pixel
\* taken from the layer carries the layer's r, g, b, every other is unchanged.
ContinuesWithoutAlpha ==
    /\ pc' = "composite"
    /\ set_index' = set_index + 1
    /\ unwrap(output_image').format = [CurrentLayer.format EXCEPT !.color_type = "Rgb"]
    /\ Len(unwrap(output_image').data) = 3 * num_pixels_of(CurrentLayer.format)
    /\ \A p \in PixelsOf(CurrentLayer) :
          IF first \/ set_masks[set_index][p + 1]
          THEN BytesAt(unwrap(output_image'), p) = ColourAt(CurrentLayer, p)
          ELSE BytesAt(unwrap(output_image'), p) = BytesAt(unwrap(output_image), p)

(* C15, as stated: every step that takes an RGBA layer into an RGB output    *)
(* lets the run continue without writing alpha, and warns exactly when it is *)
(* not the mask-source suffix with the mask alpha not kept.                  *)
C15_RgbaIntoRgbContinues ==
    [][RgbaIntoRgbStep => (WarnsUnlessMaskSource /\ ContinuesWithoutAlpha)]_vars

\* The layer is 8-bit, has at least one pixel, and has the working resolution.
DecodableLayer ==
    /\ CurrentLayer.format.bit_depth = "Eight"
    /\ num_pixels_of(CurrentLayer.format) > 0
    /\ <<CurrentLayer.format.width, CurrentLayer.format.height>> = working_res

(* C15, amended: every step that takes an RGBA layer into an RGB output of   *)
(* the layer's size and bit depth logs no error and warns exactly when it is *)
(* not the mask-source suffix with the mask alpha not kept; when the layer   *)
(* is 8-bit, has at least one pixel and has the working resolution, the run  *)
(* continues and no alpha is written.                                        *)
C15_RgbaIntoRgb ==
    [][RgbaIntoRgbStep =>
          /\ WarnsUnlessMaskSource
          /\ DecodableLayer => ContinuesWithoutAlpha]_vars

\* With the mask alpha not kept, the RGBA layers of the mask-source suffix
\* went into an RGB output without a warning, and the RGBA layer of the second
\* set has just gone into the RGB output of the other suffix with the first
\* warning of the run.
C15_Witness ==
    /\ pc = "composite"
    /\ ~stacker.keep_mask_alpha
    /\ Len(inputs) = 2
    /\ suffix_index = 2 /\ set_index = 3
    /\ HasLayer(2, 2) /\ InputFormat(2, 2).color_type = "Rgba"
    /\ MaskTrueSomewhere(2)
    /\ unwrap(output_image).format.color_type = "Rgb"
    /\ log = <<LogEntry("warn", "unexpected alpha", unwrap(inputs[2].textures[2]))>>

\* A compositing step that takes an 8-bit RGB layer into an 8-bit RGBA output
\* image of the layer's size.
RgbIntoRgbaStep ==
    /\ pc = "composite"
    /\ set_index <= Len(inputs)
    /\ HasLayer(set_index, suffix_index)
    /\ CurrentLayer.format.bit_depth = "Eight"
    /\ CurrentLayer.format.color_type = "Rgb"
    /\ output_image # None
    /\ unwrap(output_image).format = [CurrentLayer.format EXCEPT !.color_type = "Rgba"]

\* The mask of the current set has one entry for each of the layer's pixels,
\* of which there is at least one.
MaskFitsLayer ==
    /\ num_pixels_of(CurrentLayer.format) > 0
    /\ Len(set_masks[set_index]) = num_pixels_of(CurrentLayer.format)

LayerRes(k, s) == <<InputFormat(k, s).width, InputFormat(k, s).height>>

(* C17: a later contributing layer whose width and height are not those of  *)
(* the first contributing layer of its suffix, which are the output image's, *)
(* is never passed: the run fails at it at the latest, with the error that   *)
(* names the file for its resolution, and no output is written for the       *)
(* suffix.                                                                   *)
C17_LayerResolutionFatal ==
    \A s \in SuffixIndices :
        \A k \in Contributing(s) :
            LayerRes(k, s) # LayerRes(FirstContributing(s), s) =>
                /\ ~Passed(s, k)
                /\ ~OutputWritten(s)
                /\ FailedAt(s, k) =>
                      LastLog = LogEntry("error", "resolution",
                                         unwrap(inputs[k].textures[s]))

\* The run has failed at the second set's layer of the second suffix, whose
\* resolution is not the first set's, after writing the first suffix's output.
C17_Witness ==
    /\ FailedAt(2, 2)
    /\ HasLayer(1, 2) /\ HasLayer(2, 2)
    /\ LayerRes(2, 2) # LayerRes(1, 2)
    /\ LastLog.kind = "resolution"
    /\ OutputWritten(1)
    /\ ~OutputWritten(2)

(* C18: a later contributing layer whose bit depth is not that of the first  *)
(* contributing layer of its suffix is never passed: the run fails at it at  *)
(* the latest, by the error that names the file for its bit depth when the   *)
(* resolutions agree, and no output is written for the suffix.               *)
C18_LayerBitDepthFatal ==
    \A s \in SuffixIndices :
        \A k \in Contributing(s) :
            InputFormat(k, s).bit_depth # InputFormat(FirstContributing(s), s).bit_depth =>
                /\ ~Passed(s, k)
                /\ ~OutputWritten(s)
                /\ (FailedAt(s, k) /\ LayerRes(k, s) = LayerRes(FirstContributing(s), s)) =>
                      LastLog = LogEntry("error", "bit depth",
                                         unwrap(inputs[k].textures[s]))

\* The run has failed at the second set's 8-bit layer of the second suffix,
\* the first set's being 16-bit, under a mask that is false everywhere.
C18_Witness ==
    /\ FailedAt(2, 2)
    /\ HasLayer(1, 2) /\ HasLayer(2, 2)
    /\ InputFormat(1, 2).bit_depth = "Sixteen"
    /\ InputFormat(2, 2).bit_depth = "Eight"
    /\ LayerRes(2, 2) = LayerRes(1, 2)
    /\ ~MaskTrueSomewhere(2)
    /\ LastLog.kind = "bit depth"
    /\ ~OutputWritten(2)

----------------------------------------------------------------------------
(* Properties of runs with three suffixes *)

\* Some gathered set with a mask-source layer has a layer for suffix s.
ValidSetHasLayer(s) ==
    \E g \in 1..Len(gathered) :
        gathered[g].textures[1] # None /\ gathered[g].textures[s] # None

\* The inner loop of suffix s has been left.
SuffixFinished(s) ==
    pc = "done" \/ (pc \in {"composite", "panicked", "returned_err"} /\ suffix_index > s)

----------------------------------------------------------------------------
(* Properties of grouping *)

\* The set names of sets are in ascending order, without repetition.
NamesSorted(sets) ==
    \A k \in 1..(Len(sets) - 1) : string_less(sets[k].name, sets[k + 1].name)

\* Every slot of sets holds the entry of the directory named by the set's
\* name followed by the slot's suffix, with extension png, if there is one.
SlotsByName(sets, entries) ==
    \A k \in 1..Len(sets) :
        \A i \in 1..Len(stacker.suffixes) :
            LET file == Entry(sets[k].name \o stacker.suffixes[i], "png")
            IN  sets[k].textures[i] =
                   IF \E j \in 1..Len(entries) : entries[j] = file
                   THEN Some(file) ELSE None

(* C20: grouping the same directory again, with its entries listed in any    *)
(* other order, gives the same sequence of texture sets as before; the set   *)
(* names of every grouping are in ascending order and every slot holds the   *)
(* file that the set's name and the slot's suffix name.                      *)
C20_GroupingOrderIndependent ==
    [][/\ (pc = "relisted" /\ pc' = "regathered") => gathered' = gathered
       /\ pc' \in {"gathered", "regathered"} =>
             /\ NamesSorted(gathered')
             /\ SlotsByName(gathered', listing')]_vars

\* A directory of three sets or more, one of them with both of its slots
\* filled, has been grouped again from a listing that yields a set with a
\* greater name before one with a smaller name.
C20_Witness ==
    /\ pc = "regathered"
    /\ Len(gathered) >= 3
    /\ \E k \in 1..Len(gathered) :
          gathered[k].textures[1] # None /\ gathered[k].textures[2] # None
    /\ \E i, j \in 1..Len(listing) :
          /\ i < j
          /\ listing[i].ext = "png" /\ listing[j].ext = "png"
          /\ rfind(listing[i].stem) # None /\ rfind(listing[j].stem) # None
          /\ string_less(SubSeq(listing[j].stem, 1, unwrap(rfind(listing[j].stem))),
                         SubSeq(listing[i].stem, 1, unwrap(rfind(listing[i].stem))))

\* Position p (1-based) holds the last underscore of stem.
LastUnderscoreAt(stem, p) ==
    /\ p \in 1..Len(stem)
    /\ stem[p] = Underscore
    /\ \A q \in (p + 1)..Len(stem) : stem[q] # Underscore

\* The png entries of the listing whose stem has an underscore.
GroupedEntries ==
    {listing[j] : j \in {i \in 1..Len(listing) :
                           /\ listing[i].ext = "png"
                           /\ \E p \in 1..Len(listing[i].stem) : listing[i].stem[p] = Underscore}}

\* The stem of entry e before its last underscore.
BaseName(e) ==
    LET p == CHOOSE p \in 1..Len(e.stem) : LastUnderscoreAt(e.stem, p)
    IN  SubSeq(e.stem, 1, p - 1)

(* C21: after grouping, the names of the texture sets are the stems before   *)
(* the last underscore of the png entries that have an underscore, so that   *)
(* an entry without underscore is in no set; every set has one slot per      *)
(* suffix of the suffix list, and a filled slot holds an entry of the        *)
(* directory whose stem is the set's name followed by the slot's suffix,     *)
(* the suffix starting at the stem's last underscore.                        *)
C21_SplitAtLastUnderscore ==
    pc \in {"gathered", "regathered"} =>
        /\ {gathered[k].name : k \in 1..Len(gathered)} = {BaseName(e) : e \in GroupedEntries}
        /\ \A k \in 1..Len(gathered) :
              /\ Len(gathered[k].textures) = Len(stacker.suffixes)
              /\ \A i \in 1..Len(stacker.suffixes) :
                    gathered[k].textures[i] # None =>
                        LET file == unwrap(gathered[k].textures[i])
                        IN  /\ file \in GroupedEntries
                            /\ file.stem = gathered[k].name \o stacker.suffixes[i]
                            /\ LastUnderscoreAt(file.stem, Len(gathered[k].name) + 1)

\* A directory holding A_B_D.png and AB.png has been grouped: there is a set
\* named A_B whose first slot is filled.
C21_Witness ==
    /\ pc = "gathered"
    /\ \E j \in 1..Len(listing) : listing[j] = Entry(<<65, 66>>, "png")
    /\ \E k \in 1..Len(gathered) :
          /\ gathered[k].name = <<65, 95, 66>>
          /\ gathered[k].textures[1] = Some(Entry(<<65, 95, 66, 95, 68>>, "png"))

----------------------------------------------------------------------------
(* Properties of runs in which writing a file may fail *)

\* The composite of the layers of sets k.. for suffix s laid over out.
RECURSIVE Overlay(_, _, _)
Overlay(s, k, out) ==
    IF k > Len(inputs) THEN out
    ELSE IF HasLayer(k, s)
    THEN Overlay(s, k + 1, copy_image_masked(LayerOf(k, s), out, set_masks[k]))
    ELSE Overlay(s, k + 1, out)

\* The composite of suffix s as a run without mask dump makes it.
ExpectedOutput(s) ==
    LET k == FirstContributing(s)
    IN  Overlay(s, k + 1,
                copy_image(LayerOf(k, s), new_output_image(LayerOf(k, s).format, s = 1)))

\* The step that ends the mask loop.
MaskDumpStep == pc = "masks" /\ set_index > Len(inputs)

IsMaskError(entry) == entry.kind = "mask not written"

(* C22: the step that dumps the masks always leads on to compositing; with   *)
(* the dump enabled every mask is attempted, written when its write succeeds *)
(* and logged when it fails, and nothing else is written or logged. No run   *)
(* fails in the dump, and a completed run has written, for every suffix with *)
(* a contributing layer, the composite a run without dump makes.             *)
C22_MaskDumpNeverAborts ==
    [][/\ MaskDumpStep =>
             /\ pc' = "composite"
             /\ suffix_index' = 1 /\ set_index' = 1 /\ output_image' = None /\ first'
             /\ UNCHANGED <<inputs, set_masks, working_res>>
             /\ SelectSeq(log', LAMBDA entry : ~IsMaskError(entry)) = log
             /\ \A i \in 0..(Len(set_masks) - 1) :
                   /\ (MaskPath(i) \in DOMAIN written') <=>
                         (stacker.output_masks /\ MaskPath(i) \notin unwritable)
                   /\ (\E j \in 1..Len(log') : log'[j].subject = MaskPath(i)) <=>
                         (stacker.output_masks /\ MaskPath(i) \in unwritable)
             /\ DOMAIN written' \subseteq {MaskPath(i) : i \in 0..(Len(set_masks) - 1)}
       /\ pc' = "done" =>
             \A s \in SuffixIndices :
                /\ OutputWritten(s)' <=> Contributing(s) # {}
                /\ Contributing(s) # {} => Output(s)' = ExpectedOutput(s)]_vars

\* A run with mask dump has completed and written both composites though the
\* write of the first of its two masks failed; the second mask is written.
C22_Witness ==
    /\ pc = "done"
    /\ stacker.output_masks
    /\ Len(set_masks) = 2
    /\ MaskPath(0) \in unwritable
    /\ MaskPath(0) \notin DOMAIN written
    /\ MaskPath(1) \in DOMAIN written
    /\ \E j \in 1..Len(log) : log[j] = LogEntry("error", "mask not written", MaskPath(0))
    /\ OutputWritten(1) /\ OutputWritten(2)

----------------------------------------------------------------------------
(* Properties of the order of a run *)

Ended == pc \in {"done", "panicked", "returned_err"}

\* The moves from stage to stage that a run may make.
StageMoves ==
    {<<"start", "masks">>, <<"start", "returned_err">>,
     <<"masks", "masks">>, <<"masks", "composite">>, <<"masks", "panicked">>,
     <<"composite", "composite">>, <<"composite", "done">>,
     <<"composite", "panicked">>, <<"composite", "returned_err">>}

\* The suffix index whose output path an event writes, or 0.
WrittenSuffix(event) ==
    IF event.op = "write"
       /\ \E s \in SuffixIndices : event.path = OutputPath(stacker.suffixes[s])
    THEN CHOOSE s \in SuffixIndices : event.path = OutputPath(stacker.suffixes[s])
    ELSE 0

\* The history of file-system operations is in stage order: the output
\* directory and the listing, then the mask source of every input set in
\* order, only then writes, the composite outputs in suffix-list order.
IoInStageOrder ==
    /\ Len(io) >= 1 => io[1].op = "create_dir"
    /\ Len(io) >= 2 => io[2].op = "read_dir"
    /\ \A k \in 1..Len(inputs) :
          Len(io) >= 2 + k => io[2 + k] = IoEvent("read", unwrap(inputs[k].textures[1]))
    /\ \A j \in 1..Len(io) :
          io[j].op = "write" => (j > 2 + Len(inputs) /\ Len(set_masks) = Len(inputs))
    /\ \A i, j \in 1..Len(io) :
          (i < j /\ WrittenSuffix(io[i]) # 0 /\ WrittenSuffix(io[j]) # 0) =>
              WrittenSuffix(io[i]) < WrittenSuffix(io[j])

(* C23: no step is taken once a run has completed or failed, so that nothing *)
(* is read, written or retried after a fatal condition; a run moves from     *)
(* grouping to mask building to compositing to its end, the mask loop and    *)
(* the compositing loops only advance, compositing starts when every mask is *)
(* built and completes after the last suffix; the failing step writes        *)
(* nothing, and the file-system operations happen in stage order with the    *)
(* outputs in suffix-list order.                                             *)
C23_StageOrder ==
    [][/\ ~Ended
       /\ <<pc, pc'>> \in StageMoves
       /\ (pc = "masks" /\ pc' = "masks") => set_index' = set_index + 1
       /\ (pc = "masks" /\ pc' = "composite") => Len(set_masks) = Len(inputs)
       /\ (pc = "composite" /\ pc' = "composite") =>
             \/ suffix_index' = suffix_index /\ set_index' = set_index + 1
             \/ suffix_index' = suffix_index + 1 /\ set_index' = 1
       /\ pc' = "done" => (suffix_index = Len(stacker.suffixes) /\ set_index > Len(inputs))
       /\ pc' = "panicked" => written' = written
       /\ IoInStageOrder']_vars

\* A run of two input sets has failed while compositing the third suffix,
\* after dumping its masks and writing the outputs of the first two suffixes.
C23_Witness ==
    /\ pc = "panicked"
    /\ Len(inputs) = 2
    /\ suffix_index = 3
    /\ stacker.output_masks
    /\ OutputWritten(1) /\ OutputWritten(2)
    /\ io[Len(io)].op = "read"
    /\ \E i, j \in 1..Len(io) : WrittenSuffix(io[i]) = 1 /\ WrittenSuffix(io[j]) = 2

----------------------------------------------------------------------------
(* Properties of buffers and resolutions *)

\* The buffer of image has the length its format asks for.
WellSized(image) ==
    Len(image.data) = image.format.width * image.format.height
                        * calc_pixel_stride(image.format)

(* C24: every image that has been written, composite output or mask dump,   *)
(* has a buffer of width * height * stride bytes for its own format, and so  *)
(* has the output image of the suffix being composited at every moment from  *)
(* its creation on.                                                          *)
C24_BufferLength ==
    /\ \A f \in DOMAIN written : WellSized(written[f])
    /\ output_image # None => WellSized(unwrap(output_image))

\* A run with mask dump has completed and written an RGB output made from
\* RGBA layers, a 16-bit output, and the dump of its first mask.
C24_Witness ==
    /\ pc = "done"
    /\ MaskPath(0) \in DOMAIN written
    /\ OutputWritten(1) /\ Output(1).format.color_type = "Rgb"
    /\ InputFormat(1, 1).color_type = "Rgba"
    /\ OutputWritten(2) /\ Output(2).format.bit_depth = "Sixteen"


----------------------------------------------------------------------------
(* The graphical frontend (src/src/gui_frontend/main.rs): one MainWindow,    *)
(* whose update is called once per frame on the user-interface thread, and   *)
(* the worker thread that start_processing spawns to run the engine.         *)

\* Number of texture sets in the directory the window is pointed at.
MaxGuiSets == 1

\* What the user may type into the suffix fields.
GuiSuffixLists == {<<>>, <<"">>, <<"_D", "", "_D">>, <<"_D", "_N">>}

\* What the user may do in one frame: nothing, edit the configuration, or
\* click one of the three buttons.
Clicks == {"none", "edit", "Combine", "processing Ok", "error Ok"}

\* The handle of the spawned worker thread.
JoinHandle == "worker"

non_empty(suffix) == suffix # ""

RECURSIVE remove_duplicates_into(_, _)
remove_duplicates_into(output, input) ==
    IF input = <<>> THEN output
    ELSE remove_duplicates_into(
             IF \E i \in 1..Len(output) : output[i] = Head(input)
             THEN output ELSE Append(output, Head(input)),
             Tail(input))

\* remove_duplicates: unique elements, in order.
remove_duplicates(input) == remove_duplicates_into(<<>>, input)

\* The suffix list start_processing hands to the engine.
engine_suffixes(config) == remove_duplicates(SelectSeq(config.suffixes, non_empty))

display_error(w, message) ==
    [w EXCEPT !.error_message = message, !.is_showing_error = TRUE]

no_suffixes(config) ==
    config.suffixes = <<>> \/ \A i \in 1..Len(config.suffixes) : config.suffixes[i] = ""

\* validate_input_fields: its result, and the window it leaves.
fields_valid(w) == input_is_dir /\ ~no_suffixes(w.config)

validate_input_fields(w) ==
    IF ~input_is_dir THEN display_error(w, "Invalid input directory.")
    ELSE IF no_suffixes(w.config) THEN display_error(w, "No suffixes specified.")
    ELSE w

\* The main window content stays enabled while the processing window shows.
is_dialog_showing_error_only(w) == w.is_showing_error

\* is_dialog_showing of update, computed at the start of the frame.
is_dialog_showing(w) == w.is_showing_error \/ w.processing_status # "None"

\* The Combine button is pressed in a frame that draws it enabled, and the
\* input fields are valid: start_processing is called.
starts_processing(w, click) ==
    ~is_dialog_showing(w) /\ click = "Combine" /\ fields_valid(w)

\* start_processing, as far as the window goes.
start_processing(w) == [w EXCEPT !.process_thread = Some(JoinHandle)]

\* draw_main_window_content inside add_enabled_ui(!is_dialog_showing).
draw_main_window_content(w, click, suffixes) ==
    IF is_dialog_showing(w) THEN w
    ELSE IF click = "edit" THEN [w EXCEPT !.config.suffixes = suffixes]
    ELSE IF click = "Combine"
         THEN IF fields_valid(w)
              THEN [start_processing(w) EXCEPT !.processing_status = "Processing"]
              ELSE validate_input_fields(w)
    ELSE w

\* The message of the error value the engine run returned.
run_error ==
    IF stacker.suffixes = <<>> THEN "No suffixes specified."
    ELSE IF ~input_is_dir THEN "The specified input directory is not valid."
    ELSE "File::create failed"

UnwrapPanic == "called Option::unwrap() on a None value"

JoinPanic == "Failed to join worker thread"

\* The panic, if any, that update_processing_state raises on the
\* user-interface thread: finished is is_finished() of process_thread.
update_processing_state_panic(w, finished) ==
    IF w.processing_status # "Processing" THEN None
    ELSE IF w.process_thread = None THEN Some(UnwrapPanic)
    ELSE IF finished /\ pc = "panicked" THEN Some(JoinPanic)
    ELSE None

\* update_processing_state when it does not panic.
update_processing_state(w, finished) ==
    IF w.processing_status = "Processing" /\ finished
    THEN LET joined == [w EXCEPT !.processing_status = "Completed",
                                 !.process_thread = None]
         IN  IF pc = "returned_err"
             THEN display_error([joined EXCEPT !.processing_status = "None"], run_error)
             ELSE joined
    ELSE w

\* The title draw_processing_window gives the window it draws.
processing_window_title(w) ==
    IF w.processing_status = "Processing" THEN "Combining..." ELSE "Completed"

draw_processing_window(w, click) ==
    IF w.processing_status # "Processing" /\ click = "processing Ok"
    THEN [w EXCEPT !.processing_status = "None"]
    ELSE w

draw_error_window(w, click) ==
    IF click = "error Ok" THEN [w EXCEPT !.is_showing_error = FALSE] ELSE w

\* The dialogs part of update, on the window the main content left.
dialogs(w, finished, click) ==
    LET processed == IF w.processing_status # "None"
                     THEN draw_processing_window(
                              update_processing_state(w, finished), click)
                     ELSE w
    IN  IF processed.is_showing_error THEN draw_error_window(processed, click)
        ELSE processed

\* What gather_texture_sets_from_directory finds for a suffix list in the
\* directory holding the files of disk.
gather_for(suffixes) ==
    [k \in 1..MaxGuiSets |->
        [name |-> SetNames[k],
         textures |-> [s \in 1..Len(suffixes) |->
                          IF FileName(k, suffixes[s]) \in DOMAIN disk
                          THEN Some(FileName(k, suffixes[s])) ELSE None]]]

\* One frame: MainWindow::update.  A frame that starts processing spawns the
\* worker, which begins a new run of the engine on the cloned configuration.
update ==
    /\ ui_thread = "running"
    /\ \E click \in Clicks, suffixes \in GuiSuffixLists :
         LET spawned == starts_processing(window, click)
             finished == ~spawned /\ Ended
             content == draw_main_window_content(window, click, suffixes)
             panic == IF content.processing_status # "None"
                      THEN update_processing_state_panic(content, finished)
                      ELSE None
         IN  /\ IF panic # None
                THEN /\ ui_thread' = unwrap(panic)
                     /\ window' = IF unwrap(panic) = JoinPanic
                                  THEN [content EXCEPT !.processing_status = "Completed",
                                                       !.process_thread = None]
                                  ELSE content
                ELSE /\ ui_thread' = ui_thread
                     /\ window' = dialogs(content, finished, click)
             /\ IF spawned
                THEN /\ stacker' = [stacker EXCEPT !.suffixes = engine_suffixes(window.config)]
                     /\ gathered' = gather_for(engine_suffixes(window.config))
                     /\ pc' = "start"
                     /\ inputs' = <<>>
                     /\ set_masks' = <<>>
                     /\ working_res' = <<0, 0>>
                     /\ suffix_index' = 1
                     /\ set_index' = 1
                     /\ output_image' = None
                     /\ first' = TRUE
                     /\ log' = <<>>
                     /\ io' = <<>>
                ELSE UNCHANGED <<stacker, gathered, pc, inputs, set_masks, working_res,
                                 suffix_index, set_index, output_image, first, log, io>>
    /\ UNCHANGED <<unwritable, listing, disk, input_is_dir, written, dir_created>>

\* A step of the worker thread: the engine run it makes.
worker ==
    /\ ui_thread = "running"
    /\ window.process_thread # None
    /\ Next

InitGui ==
    /\ ui_thread = "running"
    /\ window \in {MainWindow_new(suffixes) : suffixes \in GuiSuffixLists}
    /\ input_is_dir \in BOOLEAN
    /\ stacker = [keep_mask_alpha |-> FALSE, output_masks |-> FALSE,
                  suffixes |-> engine_suffixes(window.config),
                  output_texture_name |-> "Output"]
    /\ unwritable \in SUBSET {OutputPath("_D")}
    /\ \E source \in [1..MaxGuiSets -> {"Rgba", "Rgb"}], layer \in [1..MaxGuiSets -> BOOLEAN] :
          disk = [f \in {FileName(k, "_D") : k \in 1..MaxGuiSets}
                           \cup {FileName(k, "_N") : k \in {j \in 1..MaxGuiSets : layer[j]}} |->
                     LET k == CHOOSE k \in 1..MaxGuiSets : SetNames[k] = f[1]
                     IN  IF f[2] = "_D"
                         THEN FileImage(k, 1, <<2, 2>>, source[k],
                                        IF source[k] = "Rgba" THEN <<255, 0, 255, 255>>
                                                              ELSE <<>>)
                         ELSE FileImage(k, 2, <<2, 2>>, "Rgb", <<>>)]
    /\ gathered = gather_for(stacker.suffixes)
    /\ pc = "start"
    /\ inputs = <<>>
    /\ set_masks = <<>>
    /\ working_res = <<0, 0>>
    /\ suffix_index = 1
    /\ set_index = 1
    /\ output_image = None
    /\ first = TRUE
    /\ written = <<>>
    /\ dir_created = FALSE
    /\ log = <<>>
    /\ listing = <<>>
    /\ io = <<>>

NextGui ==
    \/ update
    \/ worker

SpecGui == InitGui /\ [][NextGui]_vars


----------------------------------------------------------------------------
(* Properties of the graphical frontend *)

\* A step in which start_processing spawns a worker thread.
SpawnsWorker ==
    /\ pc' = "start"
    /\ window'.process_thread # None
    /\ pc # "start" \/ window.process_thread = None

(* C25: the frontend runs at most one engine invocation at a time: a worker  *)
(* is spawned only in a frame that began with processing_status None, no     *)
(* error dialog showing and no handle of an earlier worker left unjoined;    *)
(* process_thread holds a handle exactly while processing_status is          *)
(* Processing, so the unwrap of update_processing_state never fails.         *)
C25_OneInvocation ==
    /\ [](window.processing_status = "Processing"
              <=> window.process_thread = Some(JoinHandle))
    /\ [](ui_thread # UnwrapPanic)
    /\ [][SpawnsWorker => /\ window.processing_status = "None"
                          /\ ~window.is_showing_error
                          /\ window.process_thread = None]_vars

\* A second invocation has been started after the first one wrote its
\* output and its Completed window was dismissed.
C25_Witness ==
    /\ window.processing_status = "Processing"
    /\ window.process_thread = Some(JoinHandle)
    /\ pc = "start"
    /\ written # <<>>


\* Frames keep coming while a dialog shows (the progress bar animates), and
\* the worker thread is scheduled.
SpecGuiFair == SpecGui /\ WF_vars(update) /\ WF_vars(worker)

\* The engine run of the last worker spawned has ended in failure.
RunFailed == window.processing_status # "None" /\ pc \in {"panicked", "returned_err"}

\* The last run has failed and the window has reported the failure.
FailureReported ==
    /\ pc \in {"panicked", "returned_err"}
    /\ window.processing_status = "None"
    /\ window.process_thread = None
    /\ window.error_message # ""
    /\ pc = "returned_err" => window.error_message = run_error

(* C26: whenever the engine run of the worker ends in failure, the window    *)
(* leaves Processing without ever being Completed for that run, returns to   *)
(* None with the error dialog's message set to the failure, and the          *)
(* user-interface thread keeps running.                                      *)
C26_FailureReported ==
    /\ [](ui_thread = "running")
    /\ [](RunFailed => window.processing_status = "Processing")
    /\ RunFailed ~> FailureReported


----------------------------------------------------------------------------
(* Properties of the written outputs *)

\* Width and height of the written output of suffix s.
OutputRes(s) == <<Output(s).format.width, Output(s).format.height>>

(* C27: every written output has the working resolution that the            *)
(* mask-source layers established, and every layer that contributed to a     *)
(* written output has it too, also a layer that is the only one of its       *)
(* suffix.                                                                   *)
C27_OutputsHaveWorkingResolution ==
    \A s \in SuffixIndices :
        OutputWritten(s) =>
            /\ OutputRes(s) = working_res
            /\ \A k \in Contributing(s) : LayerRes(k, s) = working_res


----------------------------------------------------------------------------
(* The paths of the output files.  OutputPath above keeps base name and      *)
(* suffix apart, which is what the path is for the names of those runs       *)
(* (letters and underscores only); here the path is built character by       *)
(* character as combine_texture_sets builds it, for names and suffixes that  *)
(* hold other characters.  Strings are sequences of character codes.         *)

\* Largest number of suffixes of a run whose output paths are built.
MaxPathSuffixes == 2

\* The character that starts the extension of a file name.
Dot == 46

\* The separator of path components.
Slash == 47

\* The extension "png".
Png == <<112, 110, 103>>

\* The output directory "Combined".
OutputDirectory == <<67, 111, 109, 98, 105, 110, 101, 100>>

\* Output texture names: "T", "T.a" and the empty name.
OutputNames == {<<84>>, <<84, 46, 97>>, <<>>}

\* Suffix strings: "_D", "_N", ".D", "_D.a", "_D." and "_N.a".
PathSuffixes ==
    {<<95, 68>>, <<95, 78>>, <<46, 68>>, <<95, 68, 46, 97>>, <<95, 68, 46>>,
     <<95, 78, 46, 97>>}

\* PathBuf::push: an absolute component replaces the path, another one is
\* appended after a separator.
push(path, component) ==
    IF component # <<>> /\ component[1] = Slash THEN component
    ELSE IF path # <<>> /\ path[Len(path)] # Slash THEN path \o <<Slash>> \o component
    ELSE path \o component

\* Path::file_name of a path whose last component is neither empty nor ".":
\* that component, unless it is "..".
file_name(path) ==
    LET slashes == {i \in 1..Len(path) : path[i] = Slash}
        start == IF slashes = {} THEN 1
                 ELSE (CHOOSE i \in slashes : \A j \in slashes : j <= i) + 1
        name == SubSeq(path, start, Len(path))
    IN  IF name = <<Dot, Dot>> THEN None ELSE Some(name)

\* Path::file_stem: the file name up to its last dot; the whole file name
\* when it has no dot, or only the one it begins with.
file_stem(path) ==
    IF file_name(path) = None THEN None
    ELSE LET name == unwrap(file_name(path))
             dots == {i \in 1..Len(name) : name[i] = Dot}
             last == CHOOSE i \in dots : \A j \in dots : j <= i
         IN  IF dots = {} \/ last = 1 THEN Some(name)
             ELSE Some(SubSeq(name, 1, last - 1))

\* PathBuf::set_extension: the path is cut right after the file stem and
\* "." and the extension are appended; a path without file name is left.
set_extension(path, extension) ==
    IF file_stem(path) = None THEN path
    ELSE LET cut == SubSeq(path, 1, Len(path) - Len(unwrap(file_name(path)))
                                      + Len(unwrap(file_stem(path))))
         IN  IF extension = <<>> THEN cut ELSE cut \o <<Dot>> \o extension

\* The output file path of a suffix, as the compositing loop builds it.
output_file_path(output_directory, output_texture_name, suffix) ==
    set_extension(push(push(<<>>, output_directory), output_texture_name \o suffix), Png)

\* The image written for the suffix at position s.
SuffixImage(s) == FileImage(1, s, <<2, 2>>, "Rgb", <<>>)

InitPaths ==
    /\ pc = "outputs"
    /\ \E n \in 1..MaxPathSuffixes :
         \E suffixes \in [1..n -> PathSuffixes], name \in OutputNames :
            /\ \A i, j \in 1..n : suffixes[i] = suffixes[j] => i = j
            /\ stacker = [keep_mask_alpha |-> FALSE, output_masks |-> FALSE,
                          suffixes |-> suffixes, output_texture_name |-> name]
    /\ input_is_dir = TRUE
    /\ gathered = <<>>
    /\ disk = <<>>
    /\ inputs = <<>>
    /\ set_masks = <<>>
    /\ working_res = <<2, 2>>
    /\ suffix_index = 1
    /\ set_index = 1
    /\ output_image = None
    /\ first = TRUE
    /\ written = <<>>
    /\ dir_created = TRUE
    /\ log = <<>>
    /\ listing = <<>>
    /\ unwritable = {}
    /\ io = <<>>
    /\ window = MainWindow_new(<<>>)
    /\ ui_thread = "running"

\* The end of one iteration of the suffix loop with an output image: the
\* path of the output file is built and the image written to it.
write_output_file ==
    /\ pc = "outputs"
    /\ LET output_file == output_file_path(OutputDirectory, stacker.output_texture_name,
                                           stacker.suffixes[suffix_index])
       IN  /\ written' = write_image_to_file(written, output_file, SuffixImage(suffix_index))
           /\ io' = Append(io, IoEvent("write", output_file))
    /\ suffix_index' = suffix_index + 1
    /\ pc' = IF suffix_index < Len(stacker.suffixes) THEN "outputs" ELSE "outputs written"
    /\ UNCHANGED <<window, ui_thread, unwritable, listing, disk, gathered, input_is_dir, stacker,
                   inputs, set_masks, working_res, set_index, output_image, first,
                   dir_created, log>>

NextPaths == write_output_file

SpecPaths == InitPaths /\ [][NextPaths]_vars

\* The output file path of the suffix at position s of the run.
OutputFileOf(s) ==
    output_file_path(OutputDirectory, stacker.output_texture_name, stacker.suffixes[s])

(* C28: two different suffixes of the suffix list never get the same output  *)
(* file path, whatever the output texture name and the suffix strings, so    *)
(* the output written for a suffix is never overwritten by that of another.  *)
C28_DistinctOutputPaths ==
    pc \in {"outputs", "outputs written"} =>
        /\ \A s, u \in 1..(suffix_index - 1) : s # u => OutputFileOf(s) # OutputFileOf(u)
        /\ \A s \in 1..(suffix_index - 1) :
              /\ OutputFileOf(s) \in DOMAIN written
              /\ written[OutputFileOf(s)] = SuffixImage(s)


----------------------------------------------------------------------------
(* Properties of failed runs *)

\* The run has failed while compositing suffix s: by a panic at one of its
\* layers, or by the error of writing its output.
CompositingFailed(s) ==
    /\ pc \in {"panicked", "returned_err"}
    /\ Len(inputs) > 0
    /\ Len(set_masks) = Len(inputs)
    /\ suffix_index = s

(* C29: when the run has failed while compositing a suffix, the output file  *)
(* of every earlier suffix for which some valid set has a layer exists, no   *)
(* output file exists for the failing suffix or a later one, and no step     *)
(* ever removes a written file.                                              *)
C29_PartialOutputs ==
    /\ [](\A k \in SuffixIndices :
             CompositingFailed(k) =>
                /\ \A s \in 1..(k - 1) : ValidSetHasLayer(s) => OutputWritten(s)
                /\ \A s \in k..Len(stacker.suffixes) : ~OutputWritten(s))
    /\ [][\A f \in DOMAIN written : f \in DOMAIN written']_vars

\* A run has failed by a panic at a layer of the third suffix after the
\* outputs of the first and the second were written.
C29_Witness ==
    /\ CompositingFailed(3)
    /\ pc = "panicked"
    /\ OutputWritten(1) /\ OutputWritten(2)
    /\ ~OutputWritten(3)

\* A run has failed by the error of writing the output of the second suffix
\* after the output of the first was written.
C29_WitnessWriteError ==
    /\ CompositingFailed(2)
    /\ pc = "returned_err"
    /\ OutputWritten(1)
    /\ ~OutputWritten(2)


(* C30: a run with an empty suffix list, or with an input path that is not   *)
(* a directory, returns an error and has no effect: the output directory is  *)
(* not created, no directory is listed, no file is read or written and       *)
(* nothing is logged.                                                        *)
C30_EarlyReturnNoEffect ==
    (stacker.suffixes = <<>> \/ ~input_is_dir) =>
        /\ pc \in {"start", "returned_err"}
        /\ ~dir_created
        /\ io = <<>>
        /\ written = <<>>
        /\ log = <<>>

\* A run on a path that is not a directory, with suffixes given, has
\* returned its error.
C30_Witness ==
    /\ pc = "returned_err"
    /\ ~input_is_dir
    /\ stacker.suffixes # <<>>

\* A run on a directory with an empty suffix list has returned its error.
C30_WitnessNoSuffixes ==
    /\ pc = "returned_err"
    /\ input_is_dir
    /\ stacker.suffixes = <<>>
    /\ Len(gathered) > 0

====
